---- MODULE Spec2Model ----
(***************************************************************************)
(* Model of the legal-filing formatter of PDFSage/SageLegal (src/pl2.py):  *)
(* heading classification, title-block detection, line wrapping, segment   *)
(* building, two-pass pagination and heading/citation indexing, the        *)
(* command line of main with its exhibit list and snapshot option, the     *)
(* exhibit pages and the files written; and of the Lawsuit class of        *)
(* src/lawsuit.py.                                                         *)
(*                                                                         *)
(* Text is a sequence of one-character strings, so that splitting,         *)
(* stripping, joining and pattern matching are computed character by       *)
(* character as the Python code computes them.  The alphabet of the model  *)
(* has "\n" as its only line boundary and " ", "\t", "\n" as whitespace.   *)
(* Indices (start_index, end_index, current_index) are 0-based as in the   *)
(* source; element i of a Python list is element i + 1 of the sequence.    *)
(***************************************************************************)
EXTENDS Integers, Sequences, FiniteSets, TLC

VARIABLES
    pc,                 \* position in main / generate_legal_document, or in the function harness
    raw_text,           \* contents of the --file input (src/pl2.py:952)
    max_text_width,     \* max_text_width of generate_legal_document / max_width of wrap_text_to_lines
    max_lines_per_page, \* line budget of a page
    header_od,          \* header_od["content"]
    sections_od,        \* OrderedDict heading key -> body, as a sequence of <<key, body>>
    heading_styles,     \* dict heading key -> "section" | "subsection"
    segments,           \* result of prepare_main_pdf_segments
    current_index,      \* loop index of the counting pass, then of the render pass
    text_pages,         \* pages counted by the counting pass
    total_pages,        \* 1 + text_pages + exhibit_pages
    page_number,        \* number of the page drawn next
    heading_positions,  \* list of <<text, page, line, is_subheading>>
    reference_positions,\* list of <<ref, page, line>>
    pages,              \* canvas history: one record per draw_page_of_segments + showPage
    exhibits,           \* list of <<caption, image_path>> given to generate_legal_document
    all_lines,          \* result of a direct wrap_text_to_lines call
    yielded,            \* items yielded by a direct detect_legal_title_blocks call
    argv,               \* command line of main: the --exhibits values and the --pickle option
    args,               \* result of parser.parse_args() (src/pl2.py:950)
    outputs,            \* names of the files written so far, in writing order
    self,               \* the Lawsuit object of src/lawsuit.py (body_sections, exhibits)
    call                \* the last call made on the Lawsuit class: <<method, arguments>>

vars == <<pc, raw_text, max_text_width, max_lines_per_page, header_od, sections_od,
          heading_styles, segments, current_index, text_pages, total_pages,
          page_number, heading_positions, reference_positions, pages,
          exhibits, all_lines, yielded, argv, args, outputs, self, call>>

----------------------------------------------------------------------------
(* Characters and the str methods the code uses *)

NL == "\n"

Whitespace == {" ", "\t", NL}

UpperChars == {"A", "B", "C", "D", "E", "F", "G", "H", "I", "J", "K", "L", "M",
               "N", "O", "P", "Q", "R", "S", "T", "U", "V", "W", "X", "Y", "Z"}

LowerChars == {"a", "b", "c", "d", "e", "f", "g", "h", "i", "j", "k", "l", "m",
               "n", "o", "p", "q", "r", "s", "t", "u", "v", "w", "x", "y", "z"}

DigitChars == {"0", "1", "2", "3", "4", "5", "6", "7", "8", "9"}

\* [IVXLCDM] under re.IGNORECASE
RomanChars == {"I", "V", "X", "L", "C", "D", "M", "i", "v", "x", "l", "c", "d", "m"}

UpperToLower == [c \in UpperChars |->
    CASE c = "A" -> "a" [] c = "B" -> "b" [] c = "C" -> "c" [] c = "D" -> "d"
      [] c = "E" -> "e" [] c = "F" -> "f" [] c = "G" -> "g" [] c = "H" -> "h"
      [] c = "I" -> "i" [] c = "J" -> "j" [] c = "K" -> "k" [] c = "L" -> "l"
      [] c = "M" -> "m" [] c = "N" -> "n" [] c = "O" -> "o" [] c = "P" -> "p"
      [] c = "Q" -> "q" [] c = "R" -> "r" [] c = "S" -> "s" [] c = "T" -> "t"
      [] c = "U" -> "u" [] c = "V" -> "v" [] c = "W" -> "w" [] c = "X" -> "x"
      [] c = "Y" -> "y" [] c = "Z" -> "z"]

\* case folding of one character, for patterns compiled with re.IGNORECASE
FoldCase(c) == IF c \in UpperChars THEN UpperToLower[c] ELSE c

SetMin(S) == CHOOSE x \in S : \A y \in S : x <= y

SetMax(S) == CHOOSE x \in S : \A y \in S : x >= y

\* sep.join(strs)
RECURSIVE JoinWith(_, _)
JoinWith(strs, sep) ==
    IF strs = <<>> THEN <<>>
    ELSE IF Len(strs) = 1 THEN strs[1]
    ELSE strs[1] \o sep \o JoinWith(Tail(strs), sep)

\* the k-th smallest element of a set of integers
KthOf(S, k) == CHOOSE p \in S : Cardinality({q \in S : q < p}) = k - 1

\* s.split('\n'): every piece between newlines, empty pieces kept
SplitNL(s) ==
    LET nl == {i \in 1..Len(s) : s[i] = NL}
        n == Cardinality(nl)
        cut(k) == IF k = 0 THEN 0 ELSE IF k = n + 1 THEN Len(s) + 1 ELSE KthOf(nl, k)
    IN  [k \in 1..(n + 1) |-> SubSeq(s, cut(k - 1) + 1, cut(k) - 1)]

\* s.splitlines(): as split('\n') but a final line terminator opens no new line
SplitLines(s) ==
    LET p == SplitNL(s)
    IN  IF p[Len(p)] = <<>> THEN SubSeq(p, 1, Len(p) - 1) ELSE p

\* s.split(): maximal runs of non-whitespace characters
SplitWords(s) ==
    LET starts == {i \in 1..Len(s) :
                      s[i] \notin Whitespace /\ (i = 1 \/ s[i - 1] \in Whitespace)}
        stop(p) == SetMin({j \in p..Len(s) : j = Len(s) \/ s[j + 1] \in Whitespace})
    IN  [k \in 1..Cardinality(starts) |->
            LET p == KthOf(starts, k) IN SubSeq(s, p, stop(p))]

\* s.strip()
Strip(s) ==
    LET keep == {i \in 1..Len(s) : s[i] \notin Whitespace}
    IN  IF keep = {} THEN <<>> ELSE SubSeq(s, SetMin(keep), SetMax(keep))

\* pdf_canvas.stringWidth(text, font_name, font_size): the renderer's width
\* measurement, abstracted to one unit per glyph
StringWidth(text, font_name, font_size) == Len(text)

----------------------------------------------------------------------------
(* is_line_all_caps, src/pl2.py:70-73 *)

is_line_all_caps(line_str) ==
    IF ~(\E i \in 1..Len(line_str) : line_str[i] \in UpperChars) THEN FALSE
    ELSE ~(\E i \in 1..Len(line_str) : line_str[i] \in LowerChars)

----------------------------------------------------------------------------
(* wrap_text_to_lines, src/pl2.py:75-94.  A line is <<text, forced>>. *)

\* WrapWords starting an empty line after a forced break (line 91 as
\* current_line = "")
RECURSIVE WrapWordsDropping(_, _, _, _, _, _)
WrapWordsDropping(words, k, current_line, font_name, font_size, max_width) ==
    IF k > Len(words)
    THEN (IF current_line # <<>> THEN << <<current_line, FALSE>> >> ELSE <<>>)
    ELSE LET word == words[k]
             test_line == IF current_line = <<>> THEN word
                          ELSE current_line \o <<" ">> \o word
         IN  IF StringWidth(test_line, font_name, font_size) <= max_width
             THEN WrapWordsDropping(words, k + 1, test_line, font_name, font_size, max_width)
             ELSE << <<current_line, TRUE>> >>
                  \o WrapWordsDropping(words, k + 1, <<>>, font_name, font_size, max_width)

\* the loop over the words of one paragraph (lines 85-91) and the final
\* emission (lines 92-93); k is the index of the next word
RECURSIVE WrapWords(_, _, _, _, _, _)
WrapWords(words, k, current_line, font_name, font_size, max_width) ==
    IF k > Len(words)
    THEN (IF current_line # <<>> THEN << <<current_line, FALSE>> >> ELSE <<>>)
    ELSE LET word == words[k]
             test_line == IF current_line = <<>> THEN word
                          ELSE current_line \o <<" ">> \o word
         IN  IF StringWidth(test_line, font_name, font_size) <= max_width
             THEN WrapWords(words, k + 1, test_line, font_name, font_size, max_width)
             ELSE << <<current_line, TRUE>> >>
                  \o WrapWords(words, k + 1, word, font_name, font_size, max_width)

\* WrapParagraph emitting nothing for a paragraph without words
WrapParagraphSkippingEmpty(paragraph, font_name, font_size, max_width) ==
    LET words == SplitWords(paragraph)
    IN  IF words = <<>> THEN <<>>
        ELSE WrapWords(words, 1, <<>>, font_name, font_size, max_width)

\* one iteration of the loop over paragraphs (lines 79-93)
WrapParagraph(paragraph, font_name, font_size, max_width) ==
    LET words == SplitWords(paragraph)
    IN  IF words = <<>> THEN << <<<<>>, FALSE>> >>
        ELSE WrapWords(words, 1, <<>>, font_name, font_size, max_width)

RECURSIVE WrapParagraphs(_, _, _, _)
WrapParagraphs(paragraphs, font_name, font_size, max_width) ==
    IF paragraphs = <<>> THEN <<>>
    ELSE WrapParagraph(paragraphs[1], font_name, font_size, max_width)
         \o WrapParagraphs(Tail(paragraphs), font_name, font_size, max_width)

wrap_text_to_lines(full_text, font_name, font_size, max_width) ==
    WrapParagraphs(SplitNL(full_text), font_name, font_size, max_width)

----------------------------------------------------------------------------
(* wrap_text_to_lines of src/print_wexhibits.py:10-46, which places the   *)
(* first word of a line without measuring it.                             *)

\* the loop over the words of one paragraph (lines 29-40) and the final
\* emission (lines 42-44); k is the index of the next word
RECURSIVE print_wexhibits_WrapWords(_, _, _, _, _, _)
print_wexhibits_WrapWords(words, k, current_line, font_name, font_size, max_width) ==
    IF k > Len(words)
    THEN (IF current_line # <<>> THEN << <<current_line, FALSE>> >> ELSE <<>>)
    ELSE LET word == words[k]
             test_line == current_line \o <<" ">> \o word
         IN  IF current_line = <<>>
             THEN print_wexhibits_WrapWords(words, k + 1, word, font_name, font_size,
                                            max_width)
             ELSE IF StringWidth(test_line, font_name, font_size) <= max_width
             THEN print_wexhibits_WrapWords(words, k + 1, test_line, font_name,
                                            font_size, max_width)
             ELSE << <<current_line, TRUE>> >>
                  \o print_wexhibits_WrapWords(words, k + 1, word, font_name, font_size,
                                               max_width)

\* one iteration of the loop over paragraphs (lines 22-44)
print_wexhibits_WrapParagraph(paragraph, font_name, font_size, max_width) ==
    LET words == SplitWords(paragraph)
    IN  IF words = <<>> THEN << <<<<>>, FALSE>> >>
        ELSE print_wexhibits_WrapWords(words, 1, <<>>, font_name, font_size, max_width)

RECURSIVE print_wexhibits_WrapParagraphs(_, _, _, _)
print_wexhibits_WrapParagraphs(paragraphs, font_name, font_size, max_width) ==
    IF paragraphs = <<>> THEN <<>>
    ELSE print_wexhibits_WrapParagraph(paragraphs[1], font_name, font_size, max_width)
         \o print_wexhibits_WrapParagraphs(Tail(paragraphs), font_name, font_size,
                                           max_width)

print_wexhibits_wrap_text_to_lines(full_text, font_name, font_size, max_width) ==
    print_wexhibits_WrapParagraphs(SplitNL(full_text), font_name, font_size, max_width)

----------------------------------------------------------------------------
(* is_full_equals_line and detect_legal_title_blocks, src/pl2.py:271-301 *)

MarkerMinLen == 5

is_full_equals_line(line_str) ==
    LET stripped == Strip(line_str)
    IN  IF Len(stripped) < MarkerMinLen THEN FALSE
        ELSE \A i \in 1..Len(stripped) : stripped[i] = "="

\* FindBottom running on to the last marker line at or after j
FindBottomLast(lines, j) ==
    LET later == {k \in j..(Len(lines) - 1) : is_full_equals_line(lines[k + 1])}
    IN  IF later = {} THEN Len(lines) ELSE SetMax(later)

\* the inner while loop (lines 285-292): the 0-based index of the first
\* marker line at or after j, or n when there is none
RECURSIVE FindBottom(_, _)
FindBottom(lines, j) ==
    IF j >= Len(lines) THEN Len(lines)
    ELSE IF is_full_equals_line(lines[j + 1]) THEN j
    ELSE FindBottom(lines, j + 1)

\* DetectFrom taking the lines after an unmatched marker as a block
RECURSIVE DetectFromOpenBlock(_, _)
DetectFromOpenBlock(lines, i) ==
    IF i >= Len(lines) THEN <<>>
    ELSE IF is_full_equals_line(lines[i + 1])
         THEN LET b == FindBottom(lines, i + 1)
              IN  << <<"legal_page_title_block", SubSeq(lines, i + 2, b)>> >>
                  \o DetectFromOpenBlock(lines, b + 1)
    ELSE << <<"normal_line", lines[i + 1]>> >> \o DetectFromOpenBlock(lines, i + 1)

\* the outer while loop from index i (0-based); the result is the sequence of
\* yielded items <<"legal_page_title_block", inner_lines>> or <<"normal_line", line>>
RECURSIVE DetectFrom(_, _)
DetectFrom(lines, i) ==
    IF i >= Len(lines) THEN <<>>
    ELSE IF is_full_equals_line(lines[i + 1])
         THEN LET b == FindBottom(lines, i + 1)
                  found_bottom == b < Len(lines)
              IN  IF found_bottom
                  THEN << <<"legal_page_title_block", SubSeq(lines, i + 2, b)>> >>
                       \o DetectFrom(lines, b + 1)
                  ELSE << <<"normal_line", lines[i + 1]>> >> \o DetectFrom(lines, i + 1)
    ELSE << <<"normal_line", lines[i + 1]>> >> \o DetectFrom(lines, i + 1)

detect_legal_title_blocks(lines) == DetectFrom(lines, 0)

----------------------------------------------------------------------------
(* parse_header_and_sections, src/pl2.py:653-693 *)

\* first index >= i (1-based) whose character is not in cls, Len(s) + 1 if none
RECURSIVE RunEnd(_, _, _)
RunEnd(s, i, cls) ==
    IF i > Len(s) THEN i
    ELSE IF s[i] \in cls THEN RunEnd(s, i + 1, cls)
    ELSE i

\* one group [IVXLCDM]+\. or [0-9]+\. at position i: the position after its
\* dot, or 0 when no group starts at i
GroupEnd(s, i) ==
    IF i > Len(s) THEN 0
    ELSE IF s[i] \in RomanChars
         THEN LET j == RunEnd(s, i, RomanChars)
              IN  IF j <= Len(s) /\ s[j] = "." THEN j + 1 ELSE 0
    ELSE IF s[i] \in DigitChars
         THEN LET j == RunEnd(s, i, DigitChars)
              IN  IF j <= Len(s) /\ s[j] = "." THEN j + 1 ELSE 0
    ELSE 0

\* the greedy repetition (...)+ : the position after the last group
RECURSIVE NumberingEnd(_, _)
NumberingEnd(s, i) ==
    LET e == GroupEnd(s, i)
    IN  IF e = 0 THEN i ELSE NumberingEnd(s, e)

\* heading_pattern.match(line) for ^((?:[IVXLCDM]+\.|[0-9]+\.)+)\s+(.*)$
\* with the two groups as the code reads them (lines 656, 662-665)
heading_pattern_match(line) ==
    LET e == NumberingEnd(line, 1)
        matched == e > 1 /\ e <= Len(line) /\ line[e] \in Whitespace
        t == RunEnd(line, e, Whitespace)
    IN  [matched |-> matched,
         group1 |-> IF matched THEN SubSeq(line, 1, e - 1) ELSE <<>>,
         group2 |-> IF matched THEN SubSeq(line, t, Len(line)) ELSE <<>>]

\* the condition under which a line opens a section (lines 663-667, 676-679)
IsHeadingLine(line) ==
    LET m == heading_pattern_match(line)
    IN  m.matched /\ is_line_all_caps(Strip(m.group2))

\* HeadingKey without the removal of the trailing dot (lines 683-684)
HeadingKeyWithDot(line) ==
    LET m == heading_pattern_match(line)
    IN  Strip(m.group1) \o <<" ">> \o Strip(m.group2)

\* lines 683-685: the key of a heading line
HeadingKey(line) ==
    LET m == heading_pattern_match(line)
        heading_number == Strip(m.group1)
        heading_title == Strip(m.group2)
        cut == IF heading_number # <<>> /\ heading_number[Len(heading_number)] = "."
               THEN SubSeq(heading_number, 1, Len(heading_number) - 1)
               ELSE heading_number
    IN  cut \o <<" ">> \o heading_title

\* OrderedDict.__setitem__: a new key is appended, an existing key keeps its
\* position and takes the new value
OrderedDictSet(od, key, value) ==
    IF \E i \in 1..Len(od) : od[i][1] = key
    THEN [i \in 1..Len(od) |-> IF od[i][1] = key THEN <<key, value>> ELSE od[i]]
    ELSE Append(od, <<key, value>>)

\* the first loop (lines 660-669): the 0-based index of the first heading line
RECURSIVE FirstHeading(_, _)
FirstHeading(lines, idx) ==
    IF idx >= Len(lines) THEN idx
    ELSE IF IsHeadingLine(lines[idx + 1]) THEN idx
    ELSE FirstHeading(lines, idx + 1)

\* SectionLoop without the reset of current_body_lines (line 682)
RECURSIVE SectionLoopKeepingBody(_, _, _, _, _, _)
SectionLoopKeepingBody(lines, idx, has_key, current_heading_key, current_body_lines, od) ==
    IF idx >= Len(lines)
    THEN (IF has_key
          THEN OrderedDictSet(od, current_heading_key, JoinWith(current_body_lines, <<NL>>))
          ELSE od)
    ELSE LET line == lines[idx + 1]
         IN  IF IsHeadingLine(line)
             THEN SectionLoopKeepingBody(lines, idx + 1, TRUE, HeadingKey(line),
                              current_body_lines,
                              IF has_key
                              THEN OrderedDictSet(od, current_heading_key,
                                                  JoinWith(current_body_lines, <<NL>>))
                              ELSE od)
             ELSE SectionLoopKeepingBody(lines, idx + 1, has_key, current_heading_key,
                              Append(current_body_lines, line), od)

\* the second loop (lines 673-692); has_key is current_heading_key is not None
RECURSIVE SectionLoop(_, _, _, _, _, _)
SectionLoop(lines, idx, has_key, current_heading_key, current_body_lines, od) ==
    IF idx >= Len(lines)
    THEN (IF has_key
          THEN OrderedDictSet(od, current_heading_key, JoinWith(current_body_lines, <<NL>>))
          ELSE od)
    ELSE LET line == lines[idx + 1]
         IN  IF IsHeadingLine(line)
             THEN SectionLoop(lines, idx + 1, TRUE, HeadingKey(line), <<>>,
                              IF has_key
                              THEN OrderedDictSet(od, current_heading_key,
                                                  JoinWith(current_body_lines, <<NL>>))
                              ELSE od)
             ELSE SectionLoop(lines, idx + 1, has_key, current_heading_key,
                              Append(current_body_lines, line), od)

parse_header_and_sections(text) ==
    LET lines == SplitLines(text)
        idx == FirstHeading(lines, 0)
    IN  [header |-> JoinWith(SubSeq(lines, 1, idx), <<NL>>),
         sections |-> SectionLoop(lines, idx, FALSE, <<>>, <<>>, <<>>)]

----------------------------------------------------------------------------
(* classify_headings, src/pl2.py:695-708 *)

DotCount(s) == Cardinality({i \in 1..Len(s) : s[i] = "."})

\* HeadingStyleOf taking one dot in the number for a subsection
HeadingStyleOfAnyDot(full_key) ==
    LET parts == SplitWords(full_key)
        heading_number == parts[1]
        dot_count == DotCount(heading_number)
    IN  IF dot_count > 0 THEN "subsection" ELSE "section"

\* lines 698-707 for one key
HeadingStyleOf(full_key) ==
    LET parts == SplitWords(full_key)
        heading_number == parts[1]
        dot_count == DotCount(heading_number)
    IN  IF dot_count > 1 THEN "subsection" ELSE "section"

classify_headings(od) ==
    [k \in {od[i][1] : i \in 1..Len(od)} |-> HeadingStyleOf(k)]

----------------------------------------------------------------------------
(* extract_references, src/pl2.py:333-348 *)

\* The third alternative of the pattern, (Lazar v\. Superior Court), folded
\* for re.IGNORECASE.  Every other alternative needs one of the characters
\* "!", "(" or the section sign, which the texts of this model never hold,
\* so over those texts findall returns the matches of this alternative.
LazarPattern == <<"l", "a", "z", "a", "r", " ", "v", ".", " ", "s", "u", "p", "e",
                  "r", "i", "o", "r", " ", "c", "o", "u", "r", "t">>

MatchesAt(text, i, pattern) ==
    /\ i + Len(pattern) - 1 <= Len(text)
    /\ \A k \in 1..Len(pattern) : FoldCase(text[i + k - 1]) = pattern[k]

\* pattern.findall(text): leftmost non-overlapping matches from position i,
\* each kept as found.append(group.strip())
RECURSIVE FindAllFrom(_, _)
FindAllFrom(text, i) ==
    IF i > Len(text) THEN <<>>
    ELSE IF MatchesAt(text, i, LazarPattern)
         THEN <<Strip(SubSeq(text, i, i + Len(LazarPattern) - 1))>>
              \o FindAllFrom(text, i + Len(LazarPattern))
    ELSE FindAllFrom(text, i + 1)

extract_references(text) == FindAllFrom(text, 1)

----------------------------------------------------------------------------
(* prepare_main_pdf_segments, src/pl2.py:710-834 *)

\* A segment is a dict in the source.  Both variants are records of one shape
\* here: a text segment has page_always_new = FALSE (seg.get returns None) and
\* a title-block segment leaves the text fields at their empty values.
TextSegment(text, font_name, font_size, alignment, is_heading, is_subheading) ==
    [page_always_new |-> FALSE, legal_page_title |-> FALSE, lines |-> <<>>,
     text |-> text, font_name |-> font_name, font_size |-> font_size,
     alignment |-> alignment, is_heading |-> is_heading,
     is_subheading |-> is_subheading]

TitleBlockSegment(lines) ==
    [page_always_new |-> TRUE, legal_page_title |-> TRUE, lines |-> lines,
     text |-> <<>>, font_name |-> "", font_size |-> 0,
     alignment |-> "", is_heading |-> FALSE, is_subheading |-> FALSE]

\* for (wl, _) in wrapped: segments.append({...})
WrappedSegments(wrapped, font_name, font_size, alignment, is_heading, is_subheading) ==
    [i \in 1..Len(wrapped) |->
        TextSegment(wrapped[i][1], font_name, font_size, alignment,
                    is_heading, is_subheading)]

\* the body of the loop of flush_normal_buffer (lines 716-747)
HeaderLineSegments(line, max_width) ==
    LET ls == Strip(line)
    IN  IF ls = <<>>
        THEN <<TextSegment(<<>>, "Helvetica", 10, "left", FALSE, FALSE)>>
        ELSE IF is_line_all_caps(ls)
        THEN WrappedSegments(wrap_text_to_lines(ls, "Helvetica", 10, max_width),
                             "Helvetica", 10, "center", FALSE, FALSE)
        ELSE WrappedSegments(wrap_text_to_lines(ls, "Helvetica", 10, max_width),
                             "Helvetica", 10, "left", FALSE, FALSE)

\* the body of the loop of flush_section_buf (lines 800-820)
SectionLineSegments(line, bfn, bfs, max_width) ==
    LET ls == Strip(line)
    IN  IF ls = <<>>
        THEN <<TextSegment(<<>>, bfn, bfs, "left", FALSE, FALSE)>>
        ELSE WrappedSegments(wrap_text_to_lines(ls, bfn, bfs, max_width),
                             bfn, bfs, "left", FALSE, FALSE)

\* flush_normal_buffer (in_header) and flush_section_buf: the segments of the
\* buffered lines, in order
RECURSIVE FlushBuffer(_, _, _, _, _)
FlushBuffer(buffer, in_header, bfn, bfs, max_width) ==
    IF buffer = <<>> THEN <<>>
    ELSE (IF in_header THEN HeaderLineSegments(buffer[1], max_width)
          ELSE SectionLineSegments(buffer[1], bfn, bfs, max_width))
         \o FlushBuffer(Tail(buffer), in_header, bfn, bfs, max_width)

\* SegmentsOfItems appending the block before the buffered lines are flushed
RECURSIVE SegmentsOfItemsBlockFirst(_, _, _, _, _, _, _)
SegmentsOfItemsBlockFirst(items, k, buffer, in_header, bfn, bfs, max_width) ==
    IF k > Len(items) THEN FlushBuffer(buffer, in_header, bfn, bfs, max_width)
    ELSE IF items[k][1] = "legal_page_title_block"
         THEN LET block_lines == items[k][2]
                  lines_cleaned == [i \in 1..Len(block_lines) |-> Strip(block_lines[i])]
              IN  <<TitleBlockSegment(lines_cleaned)>>
                  \o FlushBuffer(buffer, in_header, bfn, bfs, max_width)
                  \o SegmentsOfItemsBlockFirst(items, k + 1, <<>>, in_header, bfn, bfs,
                                               max_width)
    ELSE SegmentsOfItemsBlockFirst(items, k + 1, Append(buffer, items[k][2]),
                                   in_header, bfn, bfs, max_width)

\* the loops over detect_legal_title_blocks (lines 749-760 and 822-833) from
\* item k on, with the lines buffered so far
RECURSIVE SegmentsOfItems(_, _, _, _, _, _, _)
SegmentsOfItems(items, k, buffer, in_header, bfn, bfs, max_width) ==
    IF k > Len(items) THEN FlushBuffer(buffer, in_header, bfn, bfs, max_width)
    ELSE IF items[k][1] = "legal_page_title_block"
         THEN LET block_lines == items[k][2]
                  lines_cleaned == [i \in 1..Len(block_lines) |-> Strip(block_lines[i])]
              IN  FlushBuffer(buffer, in_header, bfn, bfs, max_width)
                  \o <<TitleBlockSegment(lines_cleaned)>>
                  \o SegmentsOfItems(items, k + 1, <<>>, in_header, bfn, bfs, max_width)
    ELSE SegmentsOfItems(items, k + 1, Append(buffer, items[k][2]),
                         in_header, bfn, bfs, max_width)

\* lines 712-760
HeaderSegments(header_text, max_width) ==
    SegmentsOfItems(detect_legal_title_blocks(SplitLines(header_text)), 1, <<>>,
                    TRUE, "Helvetica", 10, max_width)

\* SectionSegments without the blank segment before the heading (lines 778-785)
SectionSegmentsNoSeparator(section_key, section_body, styles, max_width) ==
    LET style == IF section_key \in DOMAIN styles THEN styles[section_key] ELSE "section"
        hfn == IF style = "section" THEN "Helvetica-Bold" ELSE "Helvetica"
        hfs == IF style = "section" THEN 10 ELSE 9
        bfn == "Helvetica"
        bfs == IF style = "section" THEN 10 ELSE 9
        ish == style = "section"
        issub == style # "section"
    IN  WrappedSegments(wrap_text_to_lines(section_key, hfn, hfs, max_width),
                        hfn, hfs, "center", ish, issub)
        \o SegmentsOfItems(detect_legal_title_blocks(SplitLines(section_body)), 1, <<>>,
                           FALSE, bfn, bfs, max_width)

\* one iteration of the loop over sections_od.items() (lines 763-833)
SectionSegments(section_key, section_body, styles, max_width) ==
    LET style == IF section_key \in DOMAIN styles THEN styles[section_key] ELSE "section"
        hfn == IF style = "section" THEN "Helvetica-Bold" ELSE "Helvetica"
        hfs == IF style = "section" THEN 10 ELSE 9
        bfn == "Helvetica"
        bfs == IF style = "section" THEN 10 ELSE 9
        ish == style = "section"
        issub == style # "section"
    IN  <<TextSegment(<<>>, bfn, bfs, "left", FALSE, FALSE)>>
        \o WrappedSegments(wrap_text_to_lines(section_key, hfn, hfs, max_width),
                           hfn, hfs, "center", ish, issub)
        \o SegmentsOfItems(detect_legal_title_blocks(SplitLines(section_body)), 1, <<>>,
                           FALSE, bfn, bfs, max_width)

RECURSIVE AllSectionSegments(_, _, _, _)
AllSectionSegments(od, k, styles, max_width) ==
    IF k > Len(od) THEN <<>>
    ELSE SectionSegments(od[k][1], od[k][2], styles, max_width)
         \o AllSectionSegments(od, k + 1, styles, max_width)

prepare_main_pdf_segments(header_text, od, styles, max_width) ==
    HeaderSegments(header_text, max_width) \o AllSectionSegments(od, 1, styles, max_width)

----------------------------------------------------------------------------
(* draw_page_of_segments, src/pl2.py:350-420 *)

\* entries appended to reference_positions for one line (lines 402-405)
ReferenceEntries(refs, page, line_number) ==
    [i \in 1..Len(refs) |-> <<refs[i], page, line_number>>]

\* BlockEndsPage with the test of line 380 left out
BlockNeverEndsPage(current_line_count) == FALSE

\* line 380: a title block reached after a line was placed ends the page
BlockEndsPage(current_line_count) == current_line_count > 0

\* LineNumberAt restarting on every page
LineNumberOnPage(end_index, current_line_count) == current_line_count + 1

\* line 396: the number drawn beside a text line
LineNumberAt(end_index, current_line_count) == end_index + 1

\* AppendPosition inserting at the front of the list
PrependPosition(positions, entry) == <<entry>> \o positions

\* heading_positions.append(entry), line 401
AppendPosition(positions, entry) == Append(positions, entry)

\* PageHasRoom letting one line more than the budget onto the page
PageHasRoomForOneMore(current_line_count, max_lines) == current_line_count <= max_lines

\* line 377: the page takes another segment
PageHasRoom(current_line_count, max_lines) == current_line_count < max_lines

\* BlockReturnIndex consuming the block that ended the page
BlockReturnIndexAfter(end_index) == end_index + 1

\* lines 380-381 and 416-420: the index returned when a title block ends the
\* page is the block's own index
BlockReturnIndex(end_index) == end_index

\* SegmentIsIndexed reading the is_heading flag alone
SegmentIsSectionHeading(seg) == seg.is_heading

\* line 400: the segment is listed in heading_positions
SegmentIsIndexed(seg) == seg.is_heading \/ seg.is_subheading

\* The while loop (lines 377-416) from end_index on.  The result holds the
\* returned end_index, the entries appended to the two position lists and
\* what was drawn: <<"line", index, line_number>> for a numbered text line,
\* <<"block", index>> for a title block.
RECURSIVE DrawLoop(_, _, _, _, _, _, _, _)
DrawLoop(segs, end_index, current_line_count, max_lines, page, hp, rp, drawn) ==
    IF ~(end_index < Len(segs) /\ PageHasRoom(current_line_count, max_lines))
    THEN [end_index |-> end_index, hp |-> hp, rp |-> rp, drawn |-> drawn]
    ELSE LET seg == segs[end_index + 1]
         IN  IF seg.page_always_new
             THEN IF BlockEndsPage(current_line_count)
                  THEN [end_index |-> BlockReturnIndex(end_index), hp |-> hp, rp |-> rp,
                        drawn |-> drawn]
                  ELSE [end_index |-> end_index + 1, hp |-> hp, rp |-> rp,
                        drawn |-> Append(drawn, <<"block", end_index>>)]
             ELSE LET line_number == LineNumberAt(end_index, current_line_count)
                      hp2 == IF SegmentIsIndexed(seg)
                             THEN AppendPosition(hp, <<seg.text, page, line_number,
                                                       seg.is_subheading>>)
                             ELSE hp
                      rp2 == rp \o ReferenceEntries(extract_references(seg.text),
                                                    page, line_number)
                  IN  DrawLoop(segs, end_index + 1, current_line_count + 1, max_lines,
                               page, hp2, rp2,
                               Append(drawn, <<"line", end_index, line_number>>))

draw_page_of_segments(segs, start_index, max_lines, page) ==
    DrawLoop(segs, start_index, 0, max_lines, page, <<>>, <<>>, <<>>)

----------------------------------------------------------------------------
(* Inputs *)

\* number of lines of a generated input file
MaxLines == 4

\* line budgets 1..MaxBudget (the source derives 36 from the page geometry,
\* src/pl2.py:860; the pagination code takes it as a parameter)
MaxBudget == 2

\* the text widths of the pipeline, in glyphs: one that breaks every line
\* of the inputs, one that holds one citation and one that holds every line
NarrowWidth == 4

MidWidth == 23

WideWidth == 47

\* number of exhibits given to generate_legal_document
MaxExhibits == 1

\* number of lines of an input of the function harness
MaxFunLines == 4

\* widths 0..MaxWidth given to wrap_text_to_lines by the function harness
MaxWidth == 10

\* number of lines of an input of detect_legal_title_blocks called alone
MaxDetectLines == 5

\* number of lines of an input of the segment builder called after the parser
MaxTextLines == 4

\* number of paragraphs of an input of the two wrap_text_to_lines
MaxParagraphs == 2

\* number of exhibit pairs on a command line of the runs of main over its options
MaxMainExhibits == 2

\* length of the lists of a Lawsuit object and of the lists given to its constructor
MaxListLen == 2

ExampleText ==
    <<"I", ".", " ", "I", "N", "T", "R", "O", "D", "U", "C", "T", "I", "O", "N", "\n",
      "S", "o", "m", "e", " ", "b", "o", "d", "y", " ", "t", "e", "x", "t", ".", "\n",
      "=", "=", "=", "=", "=", "\n",
      "E", "X", "H", "I", "B", "I", "T", " ", "L", "I", "S", "T", "\n",
      "=", "=", "=", "=", "=", "\n",
      "I", "I", ".", " ", "P", "A", "R", "T", "I", "E", "S", "\n",
      "M", "o", "r", "e", " ", "b", "o", "d", "y", ".">>

MarkerLine == <<"=", "=", "=", "=", "=">>

LazarCitation == <<"L", "a", "z", "a", "r", " ", "v", ".", " ", "S", "u", "p", "e", "r",
                   "i", "o", "r", " ", "C", "o", "u", "r", "t">>

\* a body line that cites the same case twice
TwoCitationsLine == LazarCitation \o <<" ">> \o LazarCitation

\* lines of the input files of the pipeline: a section heading, a subsection
\* heading, a marker and a body line of several words with two citations
PipeLines ==
    { <<"I", ".", " ", "A">>,
      <<"1", ".", "1", ".", "1", ".", " ", "B">>,
      MarkerLine,
      TwoCitationsLine }

\* "1. INTRODUCTION"
IntroLine == <<"1", ".", " ", "I", "N", "T", "R", "O", "D", "U", "C", "T", "I", "O", "N">>

\* "1.1 BACKGROUND"
BackgroundLine == <<"1", ".", "1", " ", "B", "A", "C", "K", "G", "R", "O", "U", "N", "D">>

\* "1. Introduction"
MixedCaseLine == <<"1", ".", " ", "I", "n", "t", "r", "o", "d", "u", "c", "t", "i", "o", "n">>

\* "1.1. BACKGROUND"
DottedBackgroundLine ==
    <<"1", ".", "1", ".", " ", "B", "A", "C", "K", "G", "R", "O", "U", "N", "D">>

\* "1.  INTRODUCTION", two blanks after the numbering
WideIntroLine ==
    <<"1", ".", " ", " ", "I", "N", "T", "R", "O", "D", "U", "C", "T", "I", "O", "N">>

\* " Some  body\ttext." with irregular blanks
BodyLine ==
    <<" ", "S", "o", "m", "e", " ", " ", "b", "o", "d", "y", "\t", "t", "e", "x", "t", ".">>

\* lines of the inputs of the function harness
FunLines ==
    { IntroLine, BackgroundLine, MixedCaseLine, DottedBackgroundLine, WideIntroLine,
      MarkerLine, <<>>, BodyLine }

\* " ===== ", a marker line inside blanks
SpacedMarkerLine == <<" ">> \o MarkerLine \o <<" ">>

\* "====", one sign short of a marker line
ShortEqualsLine == <<"=", "=", "=", "=">>

\* lines of the inputs of detect_legal_title_blocks called alone
DetectLines == { MarkerLine, SpacedMarkerLine, ShortEqualsLine, <<"a">> }

\* "1.1. B", a heading whose key keeps one dot
OneDotHeading == <<"1", ".", "1", ".", " ", "B">>

\* "1.1.1. B", a heading whose key keeps two dots
TwoDotHeading == <<"1", ".", "1", ".", "1", ".", " ", "B">>

\* "AB CD"
CapsLine == <<"A", "B", " ", "C", "D">>

\* " ab cd", a line in mixed case with a blank in front
PlainLine == <<" ", "a", "b", " ", "c", "d">>

\* lines of the inputs of the segment builder called after the parser
TextLines == { OneDotHeading, TwoDotHeading, MarkerLine, <<>>, CapsLine, PlainLine }

\* a text with a title block between ordinary lines, in the header and in
\* the body of a section
SampleText ==
    JoinWith(<<PlainLine, MarkerLine, PlainLine, CapsLine, MarkerLine, CapsLine,
               OneDotHeading, CapsLine, MarkerLine, PlainLine, MarkerLine, PlainLine,
               TwoDotHeading, PlainLine>>, <<NL>>)

\* a word wider than every width given to wrap_text_to_lines
LongWord == <<"a", "b", "c", "d", "e", "f", "g", "h", "i", "j", "k", "l", "m">>

\* paragraphs of the inputs of the two wrap_text_to_lines: without words
\* (empty, blanks only), of short words, and with the long word alone, first
\* and in the middle
Paragraphs ==
    { <<>>,
      <<" ", "\t">>,
      <<"a", "b", " ", "c", "d", " ", "e", "f">>,
      LongWord,
      LongWord \o <<" ", "a", "b">>,
      <<"a", "b", " ">> \o LongWord \o <<" ", "c", "d">> }

\* the texts of at most n lines over a set of lines
TextsOver(lineset, n) ==
    {JoinWith(ls, <<NL>>) : ls \in UNION {[1..k -> lineset] : k \in 0..n}}

PipeInputs == TextsOver(PipeLines, MaxLines) \cup {ExampleText}

FunInputs == TextsOver(FunLines, MaxFunLines) \cup {ExampleText}

DetectInputs == TextsOver(DetectLines, MaxDetectLines)

TextInputs == TextsOver(TextLines, MaxTextLines) \cup {SampleText}

WrapInputs == TextsOver(Paragraphs, MaxParagraphs)

\* file names of the command line
CaptionFile == <<"c", "a", "p", ".", "t", "x", "t">>

ImageFile == <<"i", "m", "a", "g", "e", ".", "p", "n", "g">>

MissingImageFile == <<"m", "i", "s", "s", "i", "n", "g", ".", "p", "n", "g">>

SnapshotPath == <<"s", "n", "a", "p", ".", "p", "k", "l">>

\* the file system: the images that ImageReader can read and size, and the
\* text of a caption file
ReadableImages == {ImageFile}

CaptionText(cap_file) == <<"c", "a", "p">>

\* --exhibits values made of k <= n caption/image pairs
ExhibitArgs(images, n) ==
    UNION {{[i \in 1..(2 * k) |-> IF i % 2 = 1 THEN CaptionFile ELSE imgs[i \div 2]] :
               imgs \in [1..k -> images]} : k \in 0..n}

\* --exhibits values with a caption file that has no image after it
OddExhibitArgs(images, n) ==
    {Append(l, CaptionFile) : l \in ExhibitArgs(images, n)}

\* the --pickle option: absent, given without a path, given with a path,
\* given with an empty path
PickleOptions ==
    { <<>>, <<"--pickle">>, <<"--pickle", SnapshotPath>>, <<"--pickle", <<>> >> }

\* command lines of the pipeline: pairs whose images load, or one caption
\* file alone; no --pickle option
PipeCommandLines ==
    [exhibits : ExhibitArgs(ReadableImages, MaxExhibits) \cup {<<CaptionFile>>},
     pickle : {<<>>}]

\* command lines of the runs of main over its options
MainCommandLines ==
    [exhibits : ExhibitArgs({ImageFile, MissingImageFile}, MaxMainExhibits)
                \cup OddExhibitArgs({ImageFile, MissingImageFile}, MaxMainExhibits),
     pickle : PickleOptions]

\* input files of the runs of main over its options
MainInputs == {ExampleText, <<"a", "b", " ", "c", "d">>}

----------------------------------------------------------------------------
(* main and generate_legal_document, src/pl2.py:836-1019 *)

\* Python's None; a value that may be None is <<>> or <<v>>
None == <<>>

\* the object that self holds when no Lawsuit has been constructed
NoObject == [fields |-> <<>>, body_sections |-> <<>>, exhibits |-> <<>>]

\* argparse, an option declared with nargs='?': the default when the option
\* is absent, const when it is given without a value, else the value
OptionalArg(option, const, default) ==
    IF option = <<>> THEN default
    ELSE IF Len(option) = 1 THEN const
    ELSE <<option[2]>>

\* parser.parse_args(), lines 942-950
parse_args(command_line) ==
    [output |-> <<"l", "a", "w", "s", "u", "i", "t", ".", "p", "d", "f">>,
     index |-> <<"i", "n", "d", "e", "x", ".", "p", "d", "f">>,
     exhibits |-> command_line.exhibits,
     pickle |-> OptionalArg(command_line.pickle, None, None)]

\* os.path.splitext(name)[0] + ".docx" for a name without a directory part:
\* the extension starts at the last dot that has a character other than a
\* dot before it
DocxName(name) ==
    LET dots == {i \in 1..Len(name) :
                    name[i] = "." /\ \E j \in 1..(i - 1) : name[j] # "."}
        root == IF dots = {} THEN name ELSE SubSeq(name, 1, SetMax(dots) - 1)
    IN  root \o <<".", "d", "o", "c", "x">>

\* the state in which main starts
MainStart(texts, widths, budgets, command_lines) ==
    /\ pc = "main"
    /\ raw_text \in texts
    /\ max_text_width \in widths
    /\ max_lines_per_page \in budgets
    /\ argv \in command_lines
    /\ args = None
    /\ outputs = <<>>
    /\ exhibits = <<>>
    /\ header_od = <<>>
    /\ sections_od = <<>>
    /\ heading_styles = <<>>
    /\ segments = <<>>
    /\ current_index = 0
    /\ text_pages = 0
    /\ total_pages = 0
    /\ page_number = 0
    /\ heading_positions = <<>>
    /\ reference_positions = <<>>
    /\ pages = <<>>
    /\ all_lines = <<>>
    /\ yielded = <<>>
    /\ self = NoObject
    /\ call = <<>>

Init ==
    MainStart(PipeInputs, {NarrowWidth, MidWidth, WideWidth}, 1..MaxBudget,
              PipeCommandLines)

\* main, lines 950-953
MainParse ==
    /\ pc = "main"
    /\ args' = parse_args(argv)
    /\ LET p == parse_header_and_sections(raw_text)
       IN  /\ header_od' = p.header
           /\ sections_od' = p.sections
    /\ pc' = "exhibit_args"
    /\ UNCHANGED <<raw_text, max_text_width, max_lines_per_page, heading_styles,
                   segments, current_index, text_pages, total_pages, page_number,
                   heading_positions, reference_positions, pages, exhibits,
                   all_lines, yielded,
                   argv, outputs, self, call>>

\* MainExhibitsOdd when the test of line 954 never finds an odd list
NoOddArgs(exhibit_args) == FALSE

\* line 954: the --exhibits values do not come in pairs
OddArgs(exhibit_args) == Len(exhibit_args) % 2 # 0

\* main, lines 954-955: raise ValueError, which ends the run
MainExhibitsOdd ==
    /\ pc = "exhibit_args"
    /\ OddArgs(args.exhibits)
    /\ pc' = "raised"
    /\ UNCHANGED <<raw_text, max_text_width, max_lines_per_page, header_od,
                   sections_od, heading_styles, segments, current_index, text_pages,
                   total_pages, page_number, heading_positions, reference_positions,
                   pages, exhibits, all_lines, yielded,
                   argv, args, outputs, self, call>>

\* lines 956-967 and 983-985: the list of (caption, image_path) pairs
ExhibitsForPdf(exhibit_args) ==
    [k \in 1..(Len(exhibit_args) \div 2) |->
        <<CaptionText(exhibit_args[2 * k - 1]), exhibit_args[2 * k]>>]

\* main, lines 956-986
MainExhibits ==
    /\ pc = "exhibit_args"
    /\ ~OddArgs(args.exhibits)
    /\ exhibits' = ExhibitsForPdf(args.exhibits)
    /\ pc' = "generate"
    /\ UNCHANGED <<raw_text, max_text_width, max_lines_per_page, header_od,
                   sections_od, heading_styles, segments, current_index, text_pages,
                   total_pages, page_number, heading_positions, reference_positions,
                   pages, all_lines, yielded,
                   argv, args, outputs, self, call>>

\* generate_legal_document, lines 853-873
GeneratePrepare ==
    /\ pc = "generate"
    /\ heading_styles' = classify_headings(sections_od)
    /\ segments' = prepare_main_pdf_segments(header_od, sections_od,
                                             classify_headings(sections_od),
                                             max_text_width)
    /\ current_index' = 0
    /\ text_pages' = 0
    /\ pc' = "count"
    /\ UNCHANGED <<raw_text, max_text_width, max_lines_per_page, header_od,
                   sections_od, total_pages, page_number, heading_positions,
                   reference_positions, pages, exhibits, all_lines, yielded,
                   argv, args, outputs, self, call>>

\* CountRun without the break at a title block (lines 884-885)
RECURSIVE CountRunOverBlocks(_, _, _, _)
CountRunOverBlocks(segs, local_i, lines_used, max_lines) ==
    IF ~(local_i < Len(segs) /\ lines_used < max_lines) THEN local_i
    ELSE CountRunOverBlocks(segs, local_i + 1, lines_used + 1, max_lines)

\* the inner while loop of the counting pass (lines 882-887): the value of
\* local_i when it ends
RECURSIVE CountRun(_, _, _, _)
CountRun(segs, local_i, lines_used, max_lines) ==
    IF ~(local_i < Len(segs) /\ lines_used < max_lines) THEN local_i
    ELSE IF segs[local_i + 1].page_always_new THEN local_i
    ELSE CountRun(segs, local_i + 1, lines_used + 1, max_lines)

\* CountNext without the branch of lines 876-878 for a title block
CountNextTextOnly(segs, index, max_lines) == CountRun(segs, index, 0, max_lines)

\* one iteration of the counting pass (lines 874-889): the next current_index
CountNext(segs, index, max_lines) ==
    IF segs[index + 1].page_always_new THEN index + 1
    ELSE CountRun(segs, index, 0, max_lines)

CountStep ==
    /\ pc = "count"
    /\ current_index < Len(segments)
    /\ text_pages' = text_pages + 1
    /\ current_index' = CountNext(segments, current_index, max_lines_per_page)
    /\ UNCHANGED <<pc, raw_text, max_text_width, max_lines_per_page, header_od,
                   sections_od, heading_styles, segments, total_pages, page_number,
                   heading_positions, reference_positions, pages, exhibits,
                   all_lines, yielded,
                   argv, args, outputs, self, call>>

\* TotalPages without the cover sheet
TotalPagesNoCover(n_text_pages, exhibit_list) == n_text_pages + Len(exhibit_list)

\* lines 890-891: the cover sheet, the text pages and one page per exhibit
TotalPages(n_text_pages, exhibit_list) == 1 + n_text_pages + Len(exhibit_list)

\* lines 890-894
CountDone ==
    /\ pc = "count"
    /\ ~(current_index < Len(segments))
    /\ total_pages' = TotalPages(text_pages, exhibits)
    /\ page_number' = 2
    /\ current_index' = 0
    /\ reference_positions' = <<>>
    /\ pc' = "render"
    /\ UNCHANGED <<raw_text, max_text_width, max_lines_per_page, header_od,
                   sections_od, heading_styles, segments, text_pages,
                   heading_positions, pages, exhibits, all_lines, yielded,
                   argv, args, outputs, self, call>>

\* one iteration of the render pass (lines 895-915)
RenderPage ==
    /\ pc = "render"
    /\ current_index < Len(segments)
    /\ LET r == draw_page_of_segments(segments, current_index, max_lines_per_page,
                                      page_number)
       IN  /\ heading_positions' = heading_positions \o r.hp
           /\ reference_positions' = reference_positions \o r.rp
           /\ pages' = Append(pages, [kind |-> "text", page_number |-> page_number,
                                      total_pages |-> total_pages,
                                      start_index |-> current_index,
                                      end_index |-> r.end_index,
                                      drawn |-> r.drawn,
                                      content |-> "segments",
                                      footer |-> <<page_number, total_pages>>])
           /\ current_index' = r.end_index
    /\ page_number' = page_number + 1
    /\ UNCHANGED <<pc, raw_text, max_text_width, max_lines_per_page, header_od,
                   sections_od, heading_styles, segments, text_pages, total_pages,
                   exhibits, all_lines, yielded,
                   argv, args, outputs, self, call>>

\* the end of the render loop (line 895, condition false)
RenderDone ==
    /\ pc = "render"
    /\ ~(current_index < Len(segments))
    /\ current_index' = 0
    /\ pc' = "exhibits"
    /\ UNCHANGED <<raw_text, max_text_width, max_lines_per_page, header_od,
                   sections_od, heading_styles, segments, text_pages, total_pages,
                   page_number, heading_positions, reference_positions, pages,
                   exhibits, all_lines, yielded,
                   argv, args, outputs, self, call>>

\* draw_exhibit_page treating an unreadable image as the end of the page:
\* no footer is drawn
draw_exhibit_page_no_footer(exhibit_caption, exhibit_image, page_no, total) ==
    IF exhibit_image \in ReadableImages
    THEN [content |-> "image", footer |-> <<page_no, total>>]
    ELSE [content |-> "placeholder", footer |-> None]

\* draw_exhibit_page (lines 206-269): what is drawn in the image area, the
\* image (lines 252-266) or the message "Unable to load image" when
\* ImageReader or getSize raised (lines 245-251), and the numbers of the
\* footer "Page X of Y" (lines 267-269)
draw_exhibit_page(exhibit_caption, exhibit_image, page_no, total) ==
    [content |-> IF exhibit_image \in ReadableImages THEN "image" ELSE "placeholder",
     footer |-> <<page_no, total>>]

\* one iteration of the loop over the exhibits (lines 916-929);
\* current_index counts the exhibits drawn
ExhibitPage ==
    /\ pc = "exhibits"
    /\ current_index < Len(exhibits)
    /\ LET ex == exhibits[current_index + 1]
           d == draw_exhibit_page(ex[1], ex[2], page_number, total_pages)
       IN  pages' = Append(pages, [kind |-> "exhibit", page_number |-> page_number,
                                   total_pages |-> total_pages,
                                   start_index |-> current_index,
                                   end_index |-> current_index + 1,
                                   drawn |-> <<>>,
                                   content |-> d.content,
                                   footer |-> d.footer])
    /\ page_number' = page_number + 1
    /\ current_index' = current_index + 1
    /\ UNCHANGED <<pc, raw_text, max_text_width, max_lines_per_page, header_od,
                   sections_od, heading_styles, segments, text_pages, total_pages,
                   heading_positions, reference_positions, exhibits, all_lines,
                   yielded,
                   argv, args, outputs, self, call>>

\* lines 930-939: the PDF is saved, the DOCX complaint is written and
\* reference_positions returned
GenerateDone ==
    /\ pc = "exhibits"
    /\ ~(current_index < Len(exhibits))
    /\ outputs' = outputs \o <<args.output, DocxName(args.output)>>
    /\ pc' = "done"
    /\ UNCHANGED <<raw_text, max_text_width, max_lines_per_page, header_od,
                   sections_od, heading_styles, segments, current_index, text_pages,
                   total_pages, page_number, heading_positions, reference_positions,
                   pages, exhibits, all_lines, yielded,
                   argv, args, self, call>>

\* main, lines 996-1010: generate_index_pdf and generate_toc_docx
MainIndex ==
    /\ pc = "done"
    /\ outputs' = outputs \o <<args.index, DocxName(args.index)>>
    /\ pc' = "indexed"
    /\ UNCHANGED <<raw_text, max_text_width, max_lines_per_page, header_od,
                   sections_od, heading_styles, segments, current_index, text_pages,
                   total_pages, page_number, heading_positions, reference_positions,
                   pages, exhibits, all_lines, yielded,
                   argv, args, self, call>>

\* lines 1011-1014: the files written by the pickle step
PickleFiles(pickle_arg) ==
    IF pickle_arg # None
    THEN <<IF pickle_arg[1] # <<>> THEN pickle_arg[1]
           ELSE <<"l", "a", "w", "s", "u", "i", "t", ".", "p", "i", "c", "k", "l", "e">> >>
    ELSE <<>>

\* main, lines 1011-1019
MainPickle ==
    /\ pc = "indexed"
    /\ outputs' = outputs \o PickleFiles(args.pickle)
    /\ pc' = "exit"
    /\ UNCHANGED <<raw_text, max_text_width, max_lines_per_page, header_od,
                   sections_od, heading_styles, segments, current_index, text_pages,
                   total_pages, page_number, heading_positions, reference_positions,
                   pages, exhibits, all_lines, yielded,
                   argv, args, self, call>>

Next ==
    \/ MainParse
    \/ MainExhibitsOdd
    \/ MainExhibits
    \/ GeneratePrepare
    \/ CountStep
    \/ CountDone
    \/ RenderPage
    \/ RenderDone
    \/ ExhibitPage
    \/ GenerateDone
    \/ MainIndex
    \/ MainPickle

Spec == Init /\ [][Next]_vars

\* main run over its options: exhibit lists of either parity, images that
\* load or not, and each form of the --pickle option
InitMain ==
    MainStart(MainInputs, {WideWidth}, 1..MaxBudget, MainCommandLines)

SpecMain == InitMain /\ [][Next]_vars

----------------------------------------------------------------------------
(* The functions called on their own: parse_header_and_sections with       *)
(* classify_headings, detect_legal_title_blocks and wrap_text_to_lines,    *)
(* each applied once to an input text.                                     *)

InitFun ==
    /\ pc = "call"
    /\ raw_text \in FunInputs
    /\ max_text_width = 0
    /\ max_lines_per_page = 0
    /\ exhibits = <<>>
    /\ header_od = <<>>
    /\ sections_od = <<>>
    /\ heading_styles = <<>>
    /\ segments = <<>>
    /\ current_index = 0
    /\ text_pages = 0
    /\ total_pages = 0
    /\ page_number = 0
    /\ heading_positions = <<>>
    /\ reference_positions = <<>>
    /\ pages = <<>>
    /\ all_lines = <<>>
    /\ yielded = <<>>
    /\ argv = [exhibits |-> <<>>, pickle |-> <<>>]
    /\ args = None
    /\ outputs = <<>>
    /\ self = NoObject
    /\ call = <<>>

\* header_od, sections_od = parse_header_and_sections(raw_text);
\* heading_styles = classify_headings(sections_od)
CallParse ==
    /\ pc = "call"
    /\ LET p == parse_header_and_sections(raw_text)
       IN  /\ header_od' = p.header
           /\ sections_od' = p.sections
           /\ heading_styles' = classify_headings(p.sections)
    /\ pc' = "parsed"
    /\ UNCHANGED <<raw_text, max_text_width, max_lines_per_page, segments,
                   current_index, text_pages, total_pages, page_number,
                   heading_positions, reference_positions, pages, exhibits,
                   all_lines, yielded,
                   argv, args, outputs, self, call>>

\* yielded = list(detect_legal_title_blocks(raw_text.splitlines()))
CallDetect ==
    /\ pc = "call"
    /\ yielded' = detect_legal_title_blocks(SplitLines(raw_text))
    /\ pc' = "detected"
    /\ UNCHANGED <<raw_text, max_text_width, max_lines_per_page, header_od,
                   sections_od, heading_styles, segments, current_index, text_pages,
                   total_pages, page_number, heading_positions, reference_positions,
                   pages, exhibits, all_lines,
                   argv, args, outputs, self, call>>

\* all_lines = wrap_text_to_lines(canvas, raw_text, "Helvetica", 10, w)
CallWrap ==
    /\ pc = "call"
    /\ \E w \in 0..MaxWidth :
          /\ max_text_width' = w
          /\ all_lines' = wrap_text_to_lines(raw_text, "Helvetica", 10, w)
    /\ pc' = "wrapped"
    /\ UNCHANGED <<raw_text, max_lines_per_page, header_od, sections_od,
                   heading_styles, segments, current_index, text_pages, total_pages,
                   page_number, heading_positions, reference_positions, pages,
                   exhibits, yielded,
                   argv, args, outputs, self, call>>

\* the state before a call of the harness on one of the given texts
HarnessStart(texts) ==
    /\ pc = "call"
    /\ raw_text \in texts
    /\ max_text_width = 0
    /\ max_lines_per_page = 0
    /\ exhibits = <<>>
    /\ header_od = <<>>
    /\ sections_od = <<>>
    /\ heading_styles = <<>>
    /\ segments = <<>>
    /\ current_index = 0
    /\ text_pages = 0
    /\ total_pages = 0
    /\ page_number = 0
    /\ heading_positions = <<>>
    /\ reference_positions = <<>>
    /\ pages = <<>>
    /\ all_lines = <<>>
    /\ yielded = <<>>
    /\ argv = [exhibits |-> <<>>, pickle |-> <<>>]
    /\ args = None
    /\ outputs = <<>>
    /\ self = NoObject
    /\ call = <<>>

NextFun ==
    \/ CallParse
    \/ CallDetect
    \/ CallWrap

SpecFun == InitFun /\ [][NextFun]_vars

\* detect_legal_title_blocks alone, on texts with up to MaxDetectLines lines
\* rich in marker lines
InitDetect == HarnessStart(DetectInputs)

NextDetect == CallDetect

SpecDetect == InitDetect /\ [][NextDetect]_vars

\* all_lines = wrap_text_to_lines(canvas, raw_text, "Helvetica", 10, w) of
\* src/print_wexhibits.py
CallWrapExhibits ==
    /\ pc = "call"
    /\ \E w \in 0..MaxWidth :
          /\ max_text_width' = w
          /\ all_lines' = print_wexhibits_wrap_text_to_lines(raw_text, "Helvetica", 10, w)
    /\ pc' = "wrapped_wexhibits"
    /\ UNCHANGED <<raw_text, max_lines_per_page, header_od, sections_od,
                   heading_styles, segments, current_index, text_pages, total_pages,
                   page_number, heading_positions, reference_positions, pages,
                   exhibits, yielded,
                   argv, args, outputs, self, call>>

\* the two wrap_text_to_lines, on texts of up to MaxParagraphs paragraphs
\* with and without words, some wider than every width
InitWrap == HarnessStart(WrapInputs)

NextWrap ==
    \/ CallWrap
    \/ CallWrapExhibits

SpecWrap == InitWrap /\ [][NextWrap]_vars

\* segments = prepare_main_pdf_segments(header_od["content"], sections_od,
\* heading_styles, ..., w), called on the result of the parser
CallPrepare ==
    /\ pc = "parsed"
    /\ \E w \in {NarrowWidth, WideWidth} :
          /\ max_text_width' = w
          /\ segments' = prepare_main_pdf_segments(header_od, sections_od,
                                                   heading_styles, w)
    /\ pc' = "prepared"
    /\ UNCHANGED <<raw_text, max_lines_per_page, header_od, sections_od,
                   heading_styles, current_index, text_pages, total_pages,
                   page_number, heading_positions, reference_positions, pages,
                   exhibits, all_lines, yielded,
                   argv, args, outputs, self, call>>

\* the parser and the segment builder one after the other, on texts with up
\* to MaxTextLines lines that mix headings, markers, blank lines and lines in
\* capitals and in mixed case
InitText == HarnessStart(TextInputs)

NextText ==
    \/ CallParse
    \/ CallPrepare

SpecText == InitText /\ [][NextText]_vars

----------------------------------------------------------------------------
(* The Lawsuit class of src/lawsuit.py: the constructor, add_body_section   *)
(* and add_exhibit called in any order.  A Python value given as an         *)
(* argument is [is_str, text]: a string with its text, or a value that is   *)
(* not a string; a list argument is [is_list, items].                       *)

\* the strings given as arguments: a word, a word between blanks, a blank
\* string and the empty string
StrArg(text) == [is_str |-> TRUE, text |-> text]

NotAString == [is_str |-> FALSE, text |-> <<>>]

ItemArgs ==
    {StrArg(<<"a">>), StrArg(<<" ", "b", " ">>), StrArg(<<" ">>), StrArg(<<>>), NotAString}

ListArg(items) == [is_list |-> TRUE, items |-> items]

NotAList == [is_list |-> FALSE, items |-> <<>>]

\* the values given as body_sections and as exhibits
ListArgs ==
    {ListArg(l) : l \in UNION {[1..k -> ItemArgs] : k \in 0..MaxListLen}} \cup {NotAList}

\* the seven string fields (heading, plaintiff, defendant, case_information,
\* court_name, firm_name, footer): all valid, or one of them invalid
FieldArgs ==
    LET good == [k \in 1..7 |-> StrArg(<<" ", "x">>)]
    IN  {good} \cup {[good EXCEPT ![k] = bad] :
                        k \in 1..7, bad \in {StrArg(<<" ">>), StrArg(<<>>), NotAString}}

\* IsNonBlankStr without the test of strip()
IsStr(v) == v.is_str

\* isinstance(v, str) and v.strip(), lines 46, 61, 69, 80, 91
IsNonBlankStr(v) == v.is_str /\ Strip(v.text) # <<>>

\* lines 58-62 and 66-70: a non-empty list of non-blank strings
IsValidList(v) ==
    /\ v.is_list
    /\ v.items # <<>>
    /\ \A i \in 1..Len(v.items) : IsNonBlankStr(v.items[i])

\* [x.strip() for x in items], lines 63, 71
StrippedItems(items) == [i \in 1..Len(items) |-> Strip(items[i].text)]

InitLawsuit ==
    /\ pc = "new"
    /\ self = NoObject
    /\ call = <<>>
    /\ raw_text = <<>>
    /\ max_text_width = 0
    /\ max_lines_per_page = 0
    /\ exhibits = <<>>
    /\ header_od = <<>>
    /\ sections_od = <<>>
    /\ heading_styles = <<>>
    /\ segments = <<>>
    /\ current_index = 0
    /\ text_pages = 0
    /\ total_pages = 0
    /\ page_number = 0
    /\ heading_positions = <<>>
    /\ reference_positions = <<>>
    /\ pages = <<>>
    /\ all_lines = <<>>
    /\ yielded = <<>>
    /\ argv = [exhibits |-> <<>>, pickle |-> <<>>]
    /\ args = None
    /\ outputs = <<>>

\* Lawsuit.__init__, lines 9-71
LawsuitInit ==
    /\ pc = "new"
    /\ \E fields \in FieldArgs, body_sections \in ListArgs, exhibit_list \in ListArgs :
          /\ call' = <<"__init__", fields, body_sections, exhibit_list>>
          /\ IF /\ \A k \in 1..Len(fields) : IsNonBlankStr(fields[k])
                /\ IsValidList(body_sections)
                /\ IsValidList(exhibit_list)
             THEN /\ self' = [fields |-> StrippedItems(fields),
                              body_sections |-> StrippedItems(body_sections.items),
                              exhibits |-> StrippedItems(exhibit_list.items)]
                  /\ pc' = "returned"
             ELSE /\ self' = self
                  /\ pc' = "init_raised"
    /\ UNCHANGED <<raw_text, max_text_width, max_lines_per_page, header_od,
                   sections_od, heading_styles, segments, current_index, text_pages,
                   total_pages, page_number, heading_positions, reference_positions,
                   pages, exhibits, all_lines, yielded, argv, args, outputs>>

\* Lawsuit.add_body_section, lines 73-82, on a constructed object
AddBodySection ==
    /\ pc \in {"returned", "raised"}
    /\ Len(self.body_sections) <= MaxListLen
    /\ \E section \in ItemArgs :
          /\ call' = <<"add_body_section", section>>
          /\ IF ~IsNonBlankStr(section)
             THEN /\ self' = self
                  /\ pc' = "raised"
             ELSE /\ self' = [self EXCEPT !.body_sections = Append(@, Strip(section.text))]
                  /\ pc' = "returned"
    /\ UNCHANGED <<raw_text, max_text_width, max_lines_per_page, header_od,
                   sections_od, heading_styles, segments, current_index, text_pages,
                   total_pages, page_number, heading_positions, reference_positions,
                   pages, exhibits, all_lines, yielded, argv, args, outputs>>

\* Lawsuit.add_exhibit, lines 84-93, on a constructed object
AddExhibit ==
    /\ pc \in {"returned", "raised"}
    /\ Len(self.exhibits) <= MaxListLen
    /\ \E exhibit \in ItemArgs :
          /\ call' = <<"add_exhibit", exhibit>>
          /\ IF ~IsNonBlankStr(exhibit)
             THEN /\ self' = self
                  /\ pc' = "raised"
             ELSE /\ self' = [self EXCEPT !.exhibits = Append(@, Strip(exhibit.text))]
                  /\ pc' = "returned"
    /\ UNCHANGED <<raw_text, max_text_width, max_lines_per_page, header_od,
                   sections_od, heading_styles, segments, current_index, text_pages,
                   total_pages, page_number, heading_positions, reference_positions,
                   pages, exhibits, all_lines, yielded, argv, args, outputs>>

NextLawsuit ==
    \/ LawsuitInit
    \/ AddBodySection
    \/ AddExhibit

SpecLawsuit == InitLawsuit /\ [][NextLawsuit]_vars

----------------------------------------------------------------------------
(* Properties of the pipeline (Spec) *)

\* everything drawn on the pages k.., in drawing order
RECURSIVE DrawnFrom(_)
DrawnFrom(k) ==
    IF k > Len(pages) THEN <<>> ELSE pages[k].drawn \o DrawnFrom(k + 1)

DrawnItems == DrawnFrom(1)

PageHasBlock(p) == \E k \in 1..Len(p.drawn) : p.drawn[k][1] = "block"

PageHasLine(p) == \E k \in 1..Len(p.drawn) : p.drawn[k][1] = "line"

BlockIndices == {i \in 0..(Len(segments) - 1) : segments[i + 1].page_always_new}

\* C1 Page-count agreement: once the render pass has ended, the number of
\* pages emitted by draw_page_of_segments equals text_pages, the number
\* computed by the counting pass.
C1_PageCountAgreement ==
    pc \in {"exhibits", "done"} =>
        Cardinality({i \in 1..Len(pages) : pages[i].kind = "text"}) = text_pages

\* a finished run with a title-block page, a page filled to the budget and a
\* page that a title block cut short
C1_Witness ==
    /\ pc = "done"
    /\ text_pages >= 3
    /\ \E i \in 1..Len(pages) : PageHasBlock(pages[i])
    /\ \E i \in 1..Len(pages) : Len(pages[i].drawn) = max_lines_per_page
                                     /\ max_lines_per_page > 1
    /\ \E i \in 1..Len(pages) : /\ PageHasLine(pages[i])
                                /\ Len(pages[i].drawn) < max_lines_per_page
                                /\ pages[i].end_index \in BlockIndices

\* C2 Block atomicity: a page on which a title-block segment is drawn holds
\* that block and nothing else, and at the end of the render pass every
\* title-block segment has been drawn on exactly one page.
C2_BlockAtomicity ==
    /\ \A i \in 1..Len(pages) :
          PageHasBlock(pages[i]) =>
              /\ Len(pages[i].drawn) = 1
              /\ pages[i].end_index = pages[i].start_index + 1
    /\ pc \in {"exhibits", "done"} =>
          \A b \in BlockIndices :
              Cardinality({i \in 1..Len(pages) : pages[i].drawn = << <<"block", b>> >>}) = 1

\* a finished run whose title block has text segments before and after it
C2_Witness ==
    /\ pc = "done"
    /\ \E b \in BlockIndices :
          /\ b > 0 /\ ~segments[b].page_always_new
          /\ b + 2 <= Len(segments) /\ ~segments[b + 2].page_always_new
          /\ \E i \in 1..Len(pages) : pages[i].drawn = << <<"block", b>> >>

\* two numbered lines a < b of the drawing order with only title blocks between
AdjacentLines(d, a, b) ==
    /\ a < b
    /\ d[a][1] = "line"
    /\ d[b][1] = "line"
    /\ \A c \in (a + 1)..(b - 1) : d[c][1] = "block"

\* C3 as stated: the line numbers assigned during the render pass increase
\* by exactly 1 from each numbered line to the next one.
C3_Original ==
    LET d == DrawnItems
    IN  \A a, b \in 1..Len(d) : AdjacentLines(d, a, b) => d[b][3] = d[a][3] + 1

\* C3 amended: the line numbers strictly increase over the whole document
\* with no reset at a page boundary; from one numbered line to the next the
\* number grows by exactly 1 plus the number of title blocks drawn between.
C3_LineNumbering ==
    LET d == DrawnItems
    IN  \A a, b \in 1..Len(d) :
            AdjacentLines(d, a, b) => d[b][3] = d[a][3] + 1 + (b - a - 1)

\* a finished run with a page boundary between two numbered lines and with a
\* title block between two numbered lines
C3_Witness ==
    /\ pc = "done"
    /\ \E i \in 1..(Len(pages) - 1) : PageHasLine(pages[i]) /\ PageHasLine(pages[i + 1])
    /\ \E i \in 2..(Len(pages) - 1) :
          PageHasLine(pages[i - 1]) /\ PageHasBlock(pages[i]) /\ PageHasLine(pages[i + 1])

\* the position entries that the drawn lines of one page call for, from item
\* k on: <<segment index, text, page, line, is_subheading>> for a heading,
\* <<segment index, citation, page, line>> for each citation of a line
RECURSIVE HeadingsOfDrawn(_, _, _)
HeadingsOfDrawn(drawn, k, page) ==
    IF k > Len(drawn) THEN <<>>
    ELSE LET it == drawn[k]
             seg == segments[it[2] + 1]
         IN  (IF it[1] = "line" /\ (seg.is_heading \/ seg.is_subheading)
              THEN << <<it[2], seg.text, page, it[3], seg.is_subheading>> >>
              ELSE <<>>)
             \o HeadingsOfDrawn(drawn, k + 1, page)

RECURSIVE ReferencesOfDrawn(_, _, _)
ReferencesOfDrawn(drawn, k, page) ==
    IF k > Len(drawn) THEN <<>>
    ELSE LET it == drawn[k]
             refs == IF it[1] = "line" THEN extract_references(segments[it[2] + 1].text)
                     ELSE <<>>
         IN  [j \in 1..Len(refs) |-> <<it[2], refs[j], page, it[3]>>]
             \o ReferencesOfDrawn(drawn, k + 1, page)

RECURSIVE RenderedHeadings(_)
RenderedHeadings(i) ==
    IF i > Len(pages) THEN <<>>
    ELSE HeadingsOfDrawn(pages[i].drawn, 1, pages[i].page_number) \o RenderedHeadings(i + 1)

RECURSIVE RenderedReferences(_)
RenderedReferences(i) ==
    IF i > Len(pages) THEN <<>>
    ELSE ReferencesOfDrawn(pages[i].drawn, 1, pages[i].page_number)
         \o RenderedReferences(i + 1)

\* C6 TOC ordering: heading_positions and reference_positions hold one
\* entry per rendered heading line and per citation of a rendered line, in
\* the order in which the source segments were drawn; along each list the
\* line strictly increases between entries of different segments and the
\* page never decreases.
C6_TocOrdering ==
    LET eh == RenderedHeadings(1)
        er == RenderedReferences(1)
    IN  /\ heading_positions = [i \in 1..Len(eh) |-> <<eh[i][2], eh[i][3], eh[i][4], eh[i][5]>>]
        /\ reference_positions = [i \in 1..Len(er) |-> <<er[i][2], er[i][3], er[i][4]>>]
        /\ \A a, b \in 1..Len(eh) :
              a < b => /\ eh[a][1] < eh[b][1]
                       /\ heading_positions[a][3] < heading_positions[b][3]
                       /\ heading_positions[a][2] <= heading_positions[b][2]
        /\ \A a, b \in 1..Len(er) :
              a < b => /\ er[a][1] <= er[b][1]
                       /\ er[a][1] # er[b][1] =>
                              reference_positions[a][3] < reference_positions[b][3]
                       /\ reference_positions[a][2] <= reference_positions[b][2]

\* a finished run with headings on different pages, two citations of one
\* line and a citation of a later line on a later page
C6_Witness ==
    /\ pc = "done"
    /\ \E a, b \in 1..Len(heading_positions) :
          a < b /\ heading_positions[a][2] < heading_positions[b][2]
    /\ \E a, b, c \in 1..Len(reference_positions) :
          /\ a < b /\ b < c
          /\ reference_positions[a][3] = reference_positions[b][3]
          /\ reference_positions[b][3] < reference_positions[c][3]
          /\ reference_positions[b][2] < reference_positions[c][2]

\* the width of the widest line of ExampleText
ExampleLineWidth ==
    LET ls == SplitLines(ExampleText)
    IN  SetMax({StringWidth(ls[i], "Helvetica", 10) : i \in 1..Len(ls)})

\* C7 Example scenario, rendering: for ExampleText at a text width that
\* holds its lines, the segments hold exactly one title block, with lines
\* ["EXHIBIT LIST"], drawn alone on its page; heading_positions lists
\* "I INTRODUCTION" then "II PARTIES" with increasing page and line; no
\* entry of either position list carries the line of the title block.
C7_ExampleRendering ==
    (pc = "done" /\ raw_text = ExampleText /\ max_text_width >= ExampleLineWidth) =>
        /\ Cardinality(BlockIndices) = 1
        /\ \A b \in BlockIndices :
              /\ segments[b + 1].lines =
                     << <<"E", "X", "H", "I", "B", "I", "T", " ", "L", "I", "S", "T">> >>
              /\ \E i \in 1..Len(pages) : pages[i].drawn = << <<"block", b>> >>
              /\ \A i \in 1..Len(pages) :
                    PageHasBlock(pages[i]) => pages[i].drawn = << <<"block", b>> >>
              /\ \A e \in 1..Len(heading_positions) : heading_positions[e][3] # b + 1
              /\ \A e \in 1..Len(reference_positions) : reference_positions[e][3] # b + 1
        /\ Len(heading_positions) = 2
        /\ heading_positions[1][1] =
               <<"I", " ", "I", "N", "T", "R", "O", "D", "U", "C", "T", "I", "O", "N">>
        /\ heading_positions[2][1] = <<"I", "I", " ", "P", "A", "R", "T", "I", "E", "S">>
        /\ heading_positions[1][2] < heading_positions[2][2]
        /\ heading_positions[1][3] < heading_positions[2][3]
        /\ reference_positions = <<>>

\* the example rendered to the end, its title block on a page between the
\* pages of the two headings
C7_Witness ==
    /\ pc = "done"
    /\ raw_text = ExampleText
    /\ max_text_width >= ExampleLineWidth
    /\ \E i \in 2..(Len(pages) - 1) :
          PageHasLine(pages[i - 1]) /\ PageHasBlock(pages[i]) /\ PageHasLine(pages[i + 1])

----------------------------------------------------------------------------
(* Properties of the functions called on their own (SpecFun) *)

\* C4 Heading classification: "1. INTRODUCTION" opens a section of style
\* section, "1.1 BACKGROUND" opens a section of style subsection, and
\* "1. Introduction" opens no section and stays in the header content.
C4_HeadingClassification ==
    pc = "parsed" =>
        /\ raw_text = IntroLine =>
              /\ Len(sections_od) = 1
              /\ sections_od[1][1] = <<"1", " ", "I", "N", "T", "R", "O", "D", "U", "C",
                                       "T", "I", "O", "N">>
              /\ heading_styles[sections_od[1][1]] = "section"
        /\ raw_text = BackgroundLine =>
              /\ Len(sections_od) = 1
              /\ heading_styles[sections_od[1][1]] = "subsection"
        /\ raw_text = MixedCaseLine =>
              /\ sections_od = <<>>
              /\ header_od = MixedCaseLine

RECURSIVE WordsOfLines(_)
WordsOfLines(lines) ==
    IF lines = <<>> THEN <<>> ELSE SplitWords(lines[1][1]) \o WordsOfLines(Tail(lines))

\* C5 Wrap fidelity: the words of the lines returned by wrap_text_to_lines,
\* read in order, are the words of the text in order, and the same holds of
\* the lines of every paragraph taken alone.
C5_WrapFidelity ==
    pc = "wrapped" =>
        /\ WordsOfLines(all_lines) = SplitWords(raw_text)
        /\ LET paragraphs == SplitNL(raw_text)
           IN  /\ all_lines = WrapParagraphs(paragraphs, "Helvetica", 10, max_text_width)
               /\ \A i \in 1..Len(paragraphs) :
                     WordsOfLines(WrapParagraph(paragraphs[i], "Helvetica", 10,
                                                max_text_width))
                         = SplitWords(paragraphs[i])

\* a text of several paragraphs wrapped into a line of two words, a forced
\* break and a word wider than the width
C5_Witness ==
    /\ pc = "wrapped"
    /\ Len(SplitNL(raw_text)) >= 2
    /\ \E i \in 1..Len(all_lines) : Len(SplitWords(all_lines[i][1])) >= 2
    /\ \E i \in 1..Len(all_lines) : all_lines[i][2] /\ all_lines[i][1] # <<>>
    /\ \E i \in 1..Len(all_lines) : Len(all_lines[i][1]) > max_text_width

\* C8 as stated: for ExampleText the sections are "I INTRODUCTION" with body
\* "Some body text." and "II PARTIES" with body "More body.".
C8_Original ==
    (pc = "parsed" /\ raw_text = ExampleText) =>
        sections_od =
            << << <<"I", " ", "I", "N", "T", "R", "O", "D", "U", "C", "T", "I", "O", "N">>,
                  <<"S", "o", "m", "e", " ", "b", "o", "d", "y", " ", "t", "e", "x", "t", ".">> >>,
               << <<"I", "I", " ", "P", "A", "R", "T", "I", "E", "S">>,
                  <<"M", "o", "r", "e", " ", "b", "o", "d", "y", ".">> >> >>

\* C8 amended: for ExampleText the header content is empty and there are
\* exactly two sections: "I INTRODUCTION", whose body is "Some body text."
\* followed by the two marker lines and the line they enclose, and
\* "II PARTIES" with body "More body.".
C8_ExampleParsing ==
    (pc = "parsed" /\ raw_text = ExampleText) =>
        /\ header_od = <<>>
        /\ sections_od =
            << << <<"I", " ", "I", "N", "T", "R", "O", "D", "U", "C", "T", "I", "O", "N">>,
                  <<"S", "o", "m", "e", " ", "b", "o", "d", "y", " ", "t", "e", "x", "t", ".", "\n",
                    "=", "=", "=", "=", "=", "\n",
                    "E", "X", "H", "I", "B", "I", "T", " ", "L", "I", "S", "T", "\n",
                    "=", "=", "=", "=", "=">> >>,
               << <<"I", "I", " ", "P", "A", "R", "T", "I", "E", "S">>,
                  <<"M", "o", "r", "e", " ", "b", "o", "d", "y", ".">> >> >>

\* the example parsed into its two sections
C8_Witness ==
    /\ pc = "parsed"
    /\ raw_text = ExampleText
    /\ Len(sections_od) = 2

MarkerPositions(lines) == {i \in 1..Len(lines) : is_full_equals_line(lines[i])}

\* line i is a marker that opens no block: no marker follows it and the
\* markers before it pair up
UnmatchedMarker(lines, i) ==
    /\ i \in MarkerPositions(lines)
    /\ \A j \in MarkerPositions(lines) : j <= i
    /\ Cardinality(MarkerPositions(lines)) % 2 = 1

BlocksYielded == {k \in 1..Len(yielded) : yielded[k][1] = "legal_page_title_block"}

\* C9 Unmatched marker leniency: a marker line with no later marker line to
\* close it is yielded as a normal line, every line after it is yielded as a
\* normal line in order, and no block is formed from it (the blocks yielded
\* are those of the marker pairs before it).
C9_UnmatchedMarker ==
    pc = "detected" =>
        LET lines == SplitLines(raw_text)
            n == Len(lines)
        IN  \A i \in 1..n :
                UnmatchedMarker(lines, i) =>
                    /\ Len(yielded) >= n - i + 1
                    /\ \A k \in i..n :
                          yielded[Len(yielded) - (n - k)] = <<"normal_line", lines[k]>>
                    /\ Cardinality(BlocksYielded) = (Cardinality(MarkerPositions(lines)) - 1) \div 2

\* an unmatched marker after a matched pair, with a line after it
C9_Witness ==
    /\ pc = "detected"
    /\ LET lines == SplitLines(raw_text)
       IN  \E i \in 1..(Len(lines) - 1) :
               UnmatchedMarker(lines, i) /\ Cardinality(MarkerPositions(lines)) = 3

HeadingPositionsOf(lines) == {i \in 1..Len(lines) : IsHeadingLine(lines[i])}

\* C10 One section per heading line: sections_od has one entry per
\* qualifying heading line, in source order, each with the key of its
\* heading line and the lines up to the next heading line as its body.
C10_SectionPerHeading ==
    pc = "parsed" =>
        LET lines == SplitLines(raw_text)
            H == HeadingPositionsOf(lines)
            m == Cardinality(H)
        IN  /\ Len(sections_od) = m
            /\ \A k \in 1..m :
                  LET i == KthOf(H, k)
                      nxt == IF k = m THEN Len(lines) + 1 ELSE KthOf(H, k + 1)
                  IN  sections_od[k] = <<HeadingKey(lines[i]),
                                         JoinWith(SubSeq(lines, i + 1, nxt - 1), <<NL>>)>>

----------------------------------------------------------------------------
(* Properties of main over its options (SpecMain) *)

\* C11 Odd exhibit list is fatal: when the --exhibits values are odd in
\* number, main gets no further than the test of the list, where it raises;
\* no page is drawn and no output file (PDF, DOCX, index PDF, index DOCX,
\* pickle) is written.
C11_OddExhibitsFatal ==
    Len(argv.exhibits) % 2 # 0 =>
        /\ pc \in {"main", "exhibit_args", "raised"}
        /\ outputs = <<>>
        /\ pages = <<>>

\* a run that raised on a list of two pairs and one caption file, with the
\* pickle option given
C11_Witness ==
    /\ pc = "raised"
    /\ Len(argv.exhibits) = 2 * MaxMainExhibits + 1
    /\ argv.pickle # <<>>

\* the exhibit pages emitted so far, in order
IsExhibitPage(p) == p.kind = "exhibit"

ExhibitPages == SelectSeq(pages, IsExhibitPage)

\* C12 Recoverable image failure: the i-th exhibit page shows the image
\* when it can be read and the placeholder message when it cannot; in
\* both cases its footer is drawn, it is the only page of that exhibit, its
\* page number is 1 + text_pages + i and its total is 1 + text_pages + the
\* number of exhibits, which do not depend on the images; an unreadable
\* image never ends the run, and once the exhibit loop has ended every
\* exhibit has its page.
C12_ImageFailureRecoverable ==
    LET ep == ExhibitPages
    IN  /\ \A i \in 1..Len(ep) :
              /\ i <= Len(exhibits)
              /\ ep[i].start_index = i - 1
              /\ ep[i].content = (IF exhibits[i][2] \in ReadableImages
                                  THEN "image" ELSE "placeholder")
              /\ ep[i].footer = <<1 + text_pages + i, 1 + text_pages + Len(exhibits)>>
        /\ pc = "raised" => Len(argv.exhibits) % 2 # 0
        /\ pc \in {"done", "indexed", "exit"} => Len(ep) = Len(exhibits)

\* a finished run with two exhibits: the image of the first cannot be read,
\* the second one is drawn after it
C12_Witness ==
    /\ pc = "exit"
    /\ Len(exhibits) >= 2
    /\ exhibits[1][2] \notin ReadableImages
    /\ exhibits[2][2] \in ReadableImages
    /\ Len(ExhibitPages) = Len(exhibits)
    /\ ExhibitPages[1].content = "placeholder"
    /\ ExhibitPages[2].content = "image"

\* the files written by a finished run after the two PDFs and the two DOCX
\* files
SnapshotFiles == SubSeq(outputs, 5, Len(outputs))

\* C13 Snapshot option: at the end of main, when --pickle was given without
\* a path the Lawsuit object has been saved to "lawsuit.pickle"; when it was
\* given with a path the object has been saved to that path; when the
\* option was absent nothing has been saved.
C13_SnapshotOption ==
    pc = "exit" =>
        /\ argv.pickle = <<"--pickle">> =>
              SnapshotFiles = << <<"l", "a", "w", "s", "u", "i", "t", ".",
                                   "p", "i", "c", "k", "l", "e">> >>
        /\ (Len(argv.pickle) = 2 /\ argv.pickle[2] # <<>>) =>
              SnapshotFiles = <<argv.pickle[2]>>
        /\ argv.pickle = <<>> => SnapshotFiles = <<>>

----------------------------------------------------------------------------
(* Properties of the Lawsuit class (SpecLawsuit) *)

\* a value that is not a string or is blank
BlankOrNotStr(v) == ~v.is_str \/ \A i \in 1..Len(v.text) : v.text[i] \in Whitespace

\* a non-empty list of non-empty strings with no whitespace at either end
StrippedNonEmpty(list) ==
    /\ list # <<>>
    /\ \A i \in 1..Len(list) :
          /\ list[i] # <<>>
          /\ list[i][1] \notin Whitespace
          /\ list[i][Len(list[i])] \notin Whitespace

\* C14 Lawsuit validity: every call of the constructor, add_body_section
\* or add_exhibit that returns leaves body_sections and exhibits non-empty
\* lists of non-empty stripped strings; the constructor stores the stripped
\* items in the order given and an add call appends its stripped argument at
\* the end of its list and leaves the other list as it was; a call whose
\* argument is not a string or is blank raises and leaves both lists
\* unchanged.
C14_LawsuitValidity ==
    [][ /\ pc' \in {"returned", "raised"} =>
              StrippedNonEmpty(self'.body_sections) /\ StrippedNonEmpty(self'.exhibits)
        /\ pc' \in {"raised", "init_raised"} => self' = self
        /\ (call'[1] = "__init__" /\ pc' = "returned") =>
              /\ self'.body_sections = [i \in 1..Len(call'[3].items) |->
                                            Strip(call'[3].items[i].text)]
              /\ self'.exhibits = [i \in 1..Len(call'[4].items) |->
                                       Strip(call'[4].items[i].text)]
        /\ (call'[1] = "add_body_section" /\ pc' = "returned") =>
              /\ self'.body_sections = Append(self.body_sections, Strip(call'[2].text))
              /\ self'.exhibits = self.exhibits
        /\ (call'[1] = "add_exhibit" /\ pc' = "returned") =>
              /\ self'.exhibits = Append(self.exhibits, Strip(call'[2].text))
              /\ self'.body_sections = self.body_sections
        /\ (call'[1] \in {"add_body_section", "add_exhibit"} /\ BlankOrNotStr(call'[2])) =>
              pc' = "raised"
      ]_vars

\* an object whose body_sections has grown by an add call that stripped
\* its argument, after an add_exhibit call with a blank string raised
C14_Witness ==
    /\ pc = "raised"
    /\ call = <<"add_exhibit", StrArg(<<" ">>)>>
    /\ Len(self.body_sections) > MaxListLen
    /\ Len(self.exhibits) > 1
    /\ self.body_sections[Len(self.body_sections)] = <<"b">>
    /\ self.exhibits[Len(self.exhibits)] = <<"b">>

----------------------------------------------------------------------------
(* Properties of the two pagination passes (Spec) *)

\* the pages drawn by draw_page_of_segments so far, in order
IsTextPage(p) == p.kind = "text"

TextPages == SelectSeq(pages, IsTextPage)

IsBlockAt(i) == i < Len(segments) /\ segments[i + 1].page_always_new

\* C15 Render-pass block rule: an invocation that starts at a title block
\* draws that block alone and returns the index just after it; an
\* invocation that has placed a line and then stands before a title block
\* returns the index of that block without drawing it, and the next
\* invocation starts at that index and draws the block first.
C15_RenderBlockRule ==
    LET tp == TextPages
    IN  \A i \in 1..Len(tp) :
            /\ IsBlockAt(tp[i].start_index) =>
                  /\ tp[i].drawn = << <<"block", tp[i].start_index>> >>
                  /\ tp[i].end_index = tp[i].start_index + 1
            /\ ~IsBlockAt(tp[i].start_index) =>
                  LET last == tp[i].drawn[Len(tp[i].drawn)]
                  IN  /\ last[1] = "line"
                      /\ IsBlockAt(last[2] + 1) =>
                            /\ tp[i].end_index = last[2] + 1
                            /\ i < Len(tp) =>
                                  /\ tp[i + 1].start_index = last[2] + 1
                                  /\ tp[i + 1].drawn[1] = <<"block", last[2] + 1>>
                            /\ i = Len(tp) => pc = "render"

\* a finished run in which a title block was reached on a page that held
\* fewer lines than the budget; the next invocation, whose page holds no
\* line, starts at that block and draws it
C15_Witness ==
    LET tp == TextPages
    IN  /\ pc = "done"
        /\ \E i \in 2..Len(tp) :
              /\ PageHasLine(tp[i - 1])
              /\ Len(tp[i - 1].drawn) < max_lines_per_page
              /\ tp[i].start_index = tp[i - 1].end_index
              /\ tp[i].drawn = << <<"block", tp[i].start_index>> >>

\* ceil(r / budget)
CeilDiv(r, budget) == (r + budget - 1) \div budget

\* one page per title block of segs[i..] plus ceil(r / budget) pages per
\* maximal run of r consecutive text segments; run is the length of the run
\* that ends just before segs[i]
RECURSIVE PagesByRuns(_, _, _, _)
PagesByRuns(segs, i, run, budget) ==
    IF i > Len(segs) THEN CeilDiv(run, budget)
    ELSE IF segs[i].page_always_new
         THEN CeilDiv(run, budget) + 1 + PagesByRuns(segs, i + 1, 0, budget)
         ELSE PagesByRuns(segs, i + 1, run + 1, budget)

\* the lengths of the maximal runs of text segments of segs[i..]
RECURSIVE RunLengths(_, _, _)
RunLengths(segs, i, run) ==
    IF i > Len(segs) THEN {run}
    ELSE IF segs[i].page_always_new THEN {run} \cup RunLengths(segs, i + 1, 0)
         ELSE RunLengths(segs, i + 1, run + 1)

\* C16 Counting pass formula: when the counting pass has ended, text_pages
\* is the number of title-block segments plus the sum of ceil(r / budget)
\* over the maximal runs of r consecutive text segments; during the pass
\* the same holds of the segments counted so far.
C16_CountingFormula ==
    /\ pc = "count" =>
          text_pages = PagesByRuns(SubSeq(segments, 1, current_index), 1, 0,
                                   max_lines_per_page)
    /\ pc \in {"render", "exhibits", "done", "indexed", "exit"} =>
          text_pages = PagesByRuns(segments, 1, 0, max_lines_per_page)

\* a counted document with a title block between two runs of text
\* segments, one of them longer than the budget and not a multiple of it
C16_Witness ==
    /\ pc = "render"
    /\ max_lines_per_page > 1
    /\ \E b \in BlockIndices : b > 0 /\ b + 1 < Len(segments)
    /\ \E r \in RunLengths(segments, 1, 0) :
          r > max_lines_per_page /\ r % max_lines_per_page # 0

\* C17 Pagination terminates with progress: every iteration of the counting
\* pass and every draw_page_of_segments invocation of the render pass moves
\* the index strictly forward and never beyond len(segments), so that a pass
\* over n segments takes at most n iterations; each pass ends with the
\* index equal to len(segments).
C17_PaginationProgress ==
    [][ /\ (pc = "count" /\ pc' = "count") =>
              /\ current_index < current_index'
              /\ current_index' <= Len(segments)
              /\ text_pages' <= current_index'
        /\ (pc = "render" /\ pc' = "render") =>
              /\ current_index < current_index'
              /\ current_index' <= Len(segments)
              /\ pages'[Len(pages')].start_index = current_index
              /\ pages'[Len(pages')].end_index = current_index'
              /\ Len(pages') <= current_index'
        /\ (pc = "count" /\ pc' = "render") => current_index = Len(segments)
        /\ (pc = "render" /\ pc' = "exhibits") => current_index = Len(segments)
      ]_vars

\* the end of a render pass of at least three invocations over a document
\* with a title block, the index being len(segments)
C17_Witness ==
    /\ pc = "render"
    /\ current_index = Len(segments)
    /\ Len(pages) >= 3
    /\ Len(pages) = text_pages
    /\ BlockIndices # {}

\* the number of text lines drawn on a page
LinesOn(p) == Cardinality({k \in 1..Len(p.drawn) : p.drawn[k][1] = "line"})

\* C18 Pages partition the segment sequence: the first page starts at
\* segment 0 and every page starts where the one before it ended; a page
\* draws the segments of its index range, each once and in sequence order,
\* a title block as a block and a text segment as a line; no page is
\* empty and none holds more than max_lines_per_page lines; when the render
\* pass has ended the last page ends at len(segments).
C18_PagesPartition ==
    LET tp == TextPages
    IN  /\ \A i \in 1..Len(tp) :
              /\ tp[i].start_index = (IF i = 1 THEN 0 ELSE tp[i - 1].end_index)
              /\ tp[i].end_index > tp[i].start_index
              /\ tp[i].end_index <= Len(segments)
              /\ Len(tp[i].drawn) = tp[i].end_index - tp[i].start_index
              /\ \A k \in 1..Len(tp[i].drawn) :
                    /\ tp[i].drawn[k][2] = tp[i].start_index + k - 1
                    /\ tp[i].drawn[k][1] =
                          (IF segments[tp[i].start_index + k].page_always_new
                           THEN "block" ELSE "line")
              /\ LinesOn(tp[i]) <= max_lines_per_page
        /\ pc \in {"exhibits", "done", "indexed", "exit"} =>
              /\ segments # <<>> => (tp # <<>> /\ tp[Len(tp)].end_index = Len(segments))
              /\ segments = <<>> => tp = <<>>

\* a finished render pass with a page filled to a budget above one, a
\* title-block page and a last page that is not full
C18_Witness ==
    LET tp == TextPages
    IN  /\ pc = "exhibits"
        /\ max_lines_per_page > 1
        /\ Len(tp) >= 3
        /\ \E i \in 1..Len(tp) : LinesOn(tp[i]) = max_lines_per_page
        /\ \E i \in 1..Len(tp) : PageHasBlock(tp[i])
        /\ LinesOn(tp[Len(tp)]) \in 1..(max_lines_per_page - 1)

\* the title blocks drawn between items a and b of the drawing order
BlocksBetween(d, a, b) == Cardinality({c \in (a + 1)..(b - 1) : d[c][1] = "block"})

\* C19 A title block consumes exactly one counter increment: the number of
\* a drawn text line is 1 plus the number of segments of either kind drawn
\* before it; two text lines with k title blocks and no text line between
\* them have numbers that differ by k + 1, and when the first segment drawn
\* is a title block the first text line has number 2.
C19_BlockConsumesLineNumber ==
    LET d == DrawnItems
    IN  /\ \A j \in 1..Len(d) :
              d[j][1] = "line" => (d[j][3] = 1 + (j - 1) /\ d[j][2] = j - 1)
        /\ \A a, b \in 1..Len(d) :
              (a < b /\ d[a][1] = "line" /\ d[b][1] = "line"
                     /\ BlocksBetween(d, a, b) = b - a - 1) =>
                  d[b][3] - d[a][3] = BlocksBetween(d, a, b) + 1
        /\ (Len(d) >= 2 /\ d[1][1] = "block" /\ d[2][1] = "line") => d[2][3] = 2

\* a finished run of a document that starts with a title block: the text
\* lines after it are numbered from 2
C19_Witness ==
    LET d == DrawnItems
    IN  /\ pc = "done"
        /\ Len(d) >= 3
        /\ d[1] = <<"block", 0>>
        /\ d[2] = <<"line", 1, 2>>
        /\ d[3] = <<"line", 2, 3>>

\* C20 Footer consistency: from the start of the render pass on,
\* total_pages is 1 + text_pages + the number of exhibits; the i-th page
\* emitted after the cover sheet, a body page or an exhibit page, has the
\* footer "Page i + 1 of total_pages", so that the body pages are numbered
\* from 2, the exhibit pages continue the numbering, every footer has
\* X <= Y with the same Y, and the last page of a finished document has
\* X = Y.
C20_FooterConsistency ==
    /\ pc \in {"render", "exhibits", "done", "indexed", "exit"} =>
          total_pages = 1 + text_pages + Len(exhibits)
    /\ \A i \in 1..Len(pages) :
          /\ pages[i].footer = <<i + 1, 1 + text_pages + Len(exhibits)>>
          /\ pages[i].footer[1] <= pages[i].footer[2]
          /\ i < Len(pages) =>
                (pages[i].kind = "exhibit" => pages[i + 1].kind = "exhibit")
    /\ (pc \in {"done", "indexed", "exit"} /\ pages # <<>>) =>
          pages[Len(pages)].footer[1] = pages[Len(pages)].footer[2]

\* a finished document of several body pages and an exhibit page, the last
\* footer being "Page Y of Y"
C20_Witness ==
    /\ pc = "done"
    /\ text_pages >= 2
    /\ Len(exhibits) >= 1
    /\ pages[1].kind = "text"
    /\ pages[1].footer = <<2, total_pages>>
    /\ pages[Len(pages)].kind = "exhibit"
    /\ pages[Len(pages)].footer = <<total_pages, total_pages>>

----------------------------------------------------------------------------
\* the entries of a position list that carry page page and line line_number
EntriesAt(positions, page, line_number) ==
    {j \in 1..Len(positions) : positions[j][2] = page /\ positions[j][3] = line_number}

\* the places <<p, k>> of the text lines drawn so far: item k of page p
DrawnLines ==
    {pk \in (1..Len(pages)) \X (1..Len(segments)) :
        /\ pk[2] <= Len(pages[pk[1]].drawn)
        /\ pages[pk[1]].drawn[pk[2]][1] = "line"}

\* C21 Heading index: at every point of the render pass, each drawn text
\* segment with is_heading or is_subheading set has exactly one entry of
\* heading_positions, which carries the segment's text, the number of the
\* page it was drawn on, its line number and its is_subheading flag; a drawn
\* text segment with neither flag has no entry; reference_positions holds
\* one entry per citation of a drawn text segment; every entry of either
\* list belongs to a drawn text segment, so that a title block adds to
\* neither list.
C21_HeadingIndex ==
    LET drawn_lines == DrawnLines
        places == {<<pages[pk[1]].page_number, pages[pk[1]].drawn[pk[2]][3]>> :
                      pk \in drawn_lines}
    IN  /\ \A pk \in drawn_lines :
              LET page == pages[pk[1]].page_number
                  it == pages[pk[1]].drawn[pk[2]]
                  seg == segments[it[2] + 1]
                  at == EntriesAt(heading_positions, page, it[3])
              IN  /\ IF seg.is_heading \/ seg.is_subheading
                     THEN /\ Cardinality(at) = 1
                          /\ \A j \in at :
                                heading_positions[j]
                                    = <<seg.text, page, it[3], seg.is_subheading>>
                     ELSE at = {}
                  /\ Cardinality(EntriesAt(reference_positions, page, it[3]))
                        = Len(extract_references(seg.text))
        /\ \A j \in 1..Len(heading_positions) :
              <<heading_positions[j][2], heading_positions[j][3]>> \in places
        /\ \A j \in 1..Len(reference_positions) :
              <<reference_positions[j][2], reference_positions[j][3]>> \in places

\* a finished run that drew a subsection heading, a text line without a
\* heading flag and a title block whose lines hold a citation
C21_Witness ==
    /\ pc = "done"
    /\ \E a \in 1..Len(heading_positions) : heading_positions[a][4]
    /\ \E k \in 1..Len(DrawnItems) :
          /\ DrawnItems[k][1] = "line"
          /\ ~segments[DrawnItems[k][2] + 1].is_heading
          /\ ~segments[DrawnItems[k][2] + 1].is_subheading
    /\ \E k \in 1..Len(DrawnItems) :
          /\ DrawnItems[k][1] = "block"
          /\ \E i \in 1..Len(segments[DrawnItems[k][2] + 1].lines) :
                extract_references(segments[DrawnItems[k][2] + 1].lines[i]) # <<>>

----------------------------------------------------------------------------
\* the k-th marker line of lines, 1-based position
MarkerAt(lines, k) == KthOf(MarkerPositions(lines), k)

\* the position in yielded of the k-th block
BlockYieldedAt(k) == KthOf(BlocksYielded, k)

\* C22 Marker pairing: with m marker lines, detect_legal_title_blocks yields
\* exactly m \div 2 blocks; the k-th block holds exactly the lines between
\* the (2k-1)-th and the 2k-th marker line, in order, and so no marker line;
\* the markers of a pair are not yielded at all: the only marker line
\* yielded as a normal line is the last one when m is odd.
C22_MarkerPairing ==
    pc = "detected" =>
        LET lines == SplitLines(raw_text)
            m == Cardinality(MarkerPositions(lines))
        IN  /\ Cardinality(BlocksYielded) = m \div 2
            /\ \A k \in 1..(m \div 2) :
                  yielded[BlockYieldedAt(k)][2] =
                      SubSeq(lines, MarkerAt(lines, 2 * k - 1) + 1,
                             MarkerAt(lines, 2 * k) - 1)
            /\ \A b \in BlocksYielded : \A i \in 1..Len(yielded[b][2]) :
                  ~is_full_equals_line(yielded[b][2][i])
            /\ Cardinality({k \in 1..Len(yielded) :
                               /\ yielded[k][1] = "normal_line"
                               /\ is_full_equals_line(yielded[k][2])}) = m % 2

\* four marker lines: two blocks, one of them with a line in it
C22_Witness ==
    /\ pc = "detected"
    /\ Cardinality(MarkerPositions(SplitLines(raw_text))) = 4
    /\ Cardinality(BlocksYielded) = 2
    /\ \E b \in BlocksYielded : yielded[b][2] # <<>>

----------------------------------------------------------------------------
(* Properties of the parser and the segment builder (SpecText) *)

\* the heading keys of the lines are pairwise different
DistinctKeys(lines) ==
    \A i, j \in HeadingPositionsOf(lines) :
        i # j => HeadingKey(lines[i]) # HeadingKey(lines[j])

\* the value stored under key in an ordered dict that holds the key
ValueOf(od, key) == od[CHOOSE i \in 1..Len(od) : od[i][1] = key][2]

\* the lines between the heading at position i and the next heading
BodyLinesAfter(lines, i) ==
    LET later == {j \in HeadingPositionsOf(lines) : j > i}
        nxt == IF later = {} THEN Len(lines) + 1 ELSE SetMin(later)
    IN  SubSeq(lines, i + 1, nxt - 1)

----------------------------------------------------------------------------
\* the numbering token of a heading key: its first word
NumberingToken(full_key) == SplitWords(full_key)[1]

----------------------------------------------------------------------------
(* Properties of the two wrap_text_to_lines (SpecWrap) *)

\* the positions in all_lines of the lines that are not forced
UnforcedLines == {i \in 1..Len(all_lines) : ~all_lines[i][2]}

\* the lines emitted for the k-th paragraph: those after the (k-1)-th
\* unforced line up to the k-th unforced line
LinesOfParagraph(k) ==
    LET from == IF k = 1 THEN 1 ELSE KthOf(UnforcedLines, k - 1) + 1
    IN  SubSeq(all_lines, from, KthOf(UnforcedLines, k))

\* C25 Forced-break flag: in both wrap_text_to_lines, every paragraph ends
\* in exactly one line with forced = false and all its lines before that one
\* have forced = true: the unforced lines are as many as the paragraphs, the
\* last line is unforced, and the lines up to the k-th unforced line hold the
\* words of the k-th paragraph; a paragraph without words yields exactly
\* one line, with empty text and forced = false.
C25_ForcedBreakFlag ==
    pc \in {"wrapped", "wrapped_wexhibits"} =>
        LET paragraphs == SplitNL(raw_text)
        IN  /\ Cardinality(UnforcedLines) = Len(paragraphs)
            /\ Len(all_lines) \in UnforcedLines
            /\ \A k \in 1..Len(paragraphs) :
                  LET ls == LinesOfParagraph(k)
                  IN  /\ \A i \in 1..Len(ls) : ls[i][2] <=> i < Len(ls)
                      /\ WordsOfLines(ls) = SplitWords(paragraphs[k])
                      /\ SplitWords(paragraphs[k]) = <<>> => ls = << <<<<>>, FALSE>> >>

\* a paragraph without words before a paragraph broken into three lines
C25_Witness ==
    /\ pc \in {"wrapped", "wrapped_wexhibits"}
    /\ Len(SplitNL(raw_text)) = 2
    /\ SplitWords(SplitNL(raw_text)[1]) = <<>>
    /\ Len(all_lines) = 4
    /\ all_lines[1] = << <<>>, FALSE>>
    /\ all_lines[2][2] /\ all_lines[3][2] /\ ~all_lines[4][2]

----------------------------------------------------------------------------
\* C29 No empty wrapped line for a non-empty paragraph: in both
\* wrap_text_to_lines, every line emitted for a paragraph that has at least
\* one word holds at least one word, also when a word is wider than the
\* maximum width (the word then stands alone on its line).
C29_NoEmptyWrappedLine ==
    pc \in {"wrapped", "wrapped_wexhibits"} =>
        LET paragraphs == SplitNL(raw_text)
        IN  \A k \in 1..Len(paragraphs) :
                SplitWords(paragraphs[k]) # <<>> =>
                    \A i \in 1..Len(LinesOfParagraph(k)) :
                        SplitWords(LinesOfParagraph(k)[i][1]) # <<>>

----------------------------------------------------------------------------
\* the alignment fields of a sequence of segments
AlignmentsOf(segs) == [i \in 1..Len(segs) |-> segs[i].alignment]

\* the alignments of the segments of the sections from the k-th on when the
\* lines of a section body are classified by the rule of the header lines
RECURSIVE AlignmentsByHeaderRule(_)
AlignmentsByHeaderRule(k) ==
    IF k > Len(sections_od) THEN <<>>
    ELSE <<"left">>
         \o [i \in 1..Len(wrap_text_to_lines(sections_od[k][1], "Helvetica", 10,
                                             max_text_width)) |-> "center"]
         \o AlignmentsOf(HeaderSegments(sections_od[k][2], max_text_width))
         \o AlignmentsByHeaderRule(k + 1)

\* C26 Section body lines are classified exactly as header lines: in the
\* header and in every section body a blank line gives a left-aligned
\* segment, a line in capitals gives center-aligned segments and any other
\* line gives left-aligned segments, so the alignments of the segments are
\* those obtained by applying the rule of the header lines to every body.
C26_BodyClassifiedAsHeader ==
    pc = "prepared" =>
        AlignmentsOf(segments)
            = AlignmentsOf(HeaderSegments(header_od, max_text_width))
              \o AlignmentsByHeaderRule(1)

----------------------------------------------------------------------------
\* segment i (1-based) carries a heading flag
Flagged(i) == segments[i].is_heading \/ segments[i].is_subheading

\* the first positions of the maximal runs of flagged segments
RunStarts == {i \in 1..Len(segments) : Flagged(i) /\ (i = 1 \/ ~Flagged(i - 1))}

\* the last position of the run of flagged segments that starts at a
RunLast(a) == SetMax({b \in a..Len(segments) : \A i \in a..b : Flagged(i)})

\* the words of a segment: of its text, or of the lines of a title block
RECURSIVE WordsOfTexts(_)
WordsOfTexts(texts) ==
    IF texts = <<>> THEN <<>> ELSE SplitWords(texts[1]) \o WordsOfTexts(Tail(texts))

RECURSIVE WordsOfSegments(_, _)
WordsOfSegments(from, to) ==
    IF from > to THEN <<>>
    ELSE (IF segments[from].page_always_new THEN WordsOfTexts(segments[from].lines)
          ELSE SplitWords(segments[from].text))
         \o WordsOfSegments(from + 1, to)

\* the words of the items yielded for a text: the words of its lines
\* without those of the markers that enclose a block
RECURSIVE WordsOfItems(_)
WordsOfItems(items) ==
    IF items = <<>> THEN <<>>
    ELSE (IF items[1][1] = "legal_page_title_block" THEN WordsOfTexts(items[1][2])
          ELSE SplitWords(items[1][2]))
         \o WordsOfItems(Tail(items))

WordsOfContent(text) == WordsOfItems(detect_legal_title_blocks(SplitLines(text)))

\* C27 Section emission order: the segments with a heading flag form one
\* run per section, in section order; the run of a section holds the words
\* of its key in centered segments that all carry is_heading alone (section
\* style) or is_subheading alone (subsection style); the segment before the
\* run is one blank left-aligned text segment without flag; the segments
\* before the first such blank segment hold the header content, and the
\* segments between a run and the next blank separator (or the end) hold the
\* section's body and carry no flag.
C27_SectionEmissionOrder ==
    pc = "prepared" =>
        LET n == Len(sections_od)
            sep(k) == KthOf(RunStarts, k) - 1
            body_end(k) == IF k = n THEN Len(segments) ELSE sep(k + 1) - 1
        IN  /\ Cardinality(RunStarts) = n
            /\ n = 0 => WordsOfSegments(1, Len(segments)) = WordsOfContent(header_od)
            /\ n > 0 => WordsOfSegments(1, sep(1) - 1) = WordsOfContent(header_od)
            /\ \A k \in 1..n :
                  LET a == KthOf(RunStarts, k)
                      b == RunLast(a)
                      key == sections_od[k][1]
                  IN  /\ a > 1
                      /\ ~segments[a - 1].page_always_new
                      /\ segments[a - 1].text = <<>>
                      /\ segments[a - 1].alignment = "left"
                      /\ ~Flagged(a - 1)
                      /\ \A i \in a..b :
                            /\ segments[i].alignment = "center"
                            /\ segments[i].is_heading <=> heading_styles[key] = "section"
                            /\ segments[i].is_subheading <=> heading_styles[key] = "subsection"
                            /\ ~(segments[i].is_heading /\ segments[i].is_subheading)
                      /\ WordsOfSegments(a, b) = SplitWords(key)
                      /\ WordsOfSegments(b + 1, body_end(k)) = WordsOfContent(sections_od[k][2])
                      /\ \A i \in (b + 1)..body_end(k) : ~Flagged(i)

\* header segments, then a section whose heading is broken into two
\* segments, with body segments, then a subsection with body segments
C27_Witness ==
    /\ pc = "prepared"
    /\ Cardinality(RunStarts) = 2
    /\ KthOf(RunStarts, 1) > 2
    /\ RunLast(KthOf(RunStarts, 1)) > KthOf(RunStarts, 1)
    /\ segments[KthOf(RunStarts, 1)].is_heading
    /\ segments[KthOf(RunStarts, 2)].is_subheading
    /\ KthOf(RunStarts, 2) > RunLast(KthOf(RunStarts, 1)) + 2
    /\ Len(segments) > RunLast(KthOf(RunStarts, 2))

----------------------------------------------------------------------------
\* the items of the document in source order: the items detected in the
\* header content, then for every section from the k-th on its key, as a
\* heading item, and the items detected in its body
RECURSIVE SectionItems(_)
SectionItems(k) ==
    IF k > Len(sections_od) THEN <<>>
    ELSE << <<"heading", sections_od[k][1]>> >>
         \o detect_legal_title_blocks(SplitLines(sections_od[k][2]))
         \o SectionItems(k + 1)

DocumentItems == detect_legal_title_blocks(SplitLines(header_od)) \o SectionItems(1)

BlockItems == {k \in 1..Len(DocumentItems) : DocumentItems[k][1] = "legal_page_title_block"}

BlockSegments == {i \in 1..Len(segments) : segments[i].page_always_new}

\* the words of the text segments among segments from..to
RECURSIVE WordsOfTextSegments(_, _)
WordsOfTextSegments(from, to) ==
    IF from > to THEN <<>>
    ELSE (IF segments[from].page_always_new THEN <<>> ELSE SplitWords(segments[from].text))
         \o WordsOfTextSegments(from + 1, to)

\* the words of the lines and headings among items from..to
RECURSIVE WordsOfLineItems(_, _)
WordsOfLineItems(from, to) ==
    IF from > to THEN <<>>
    ELSE (IF DocumentItems[from][1] = "legal_page_title_block" THEN <<>>
          ELSE SplitWords(DocumentItems[from][2]))
         \o WordsOfLineItems(from + 1, to)

\* C28 One segment per detected block: the title-block segments are as many
\* as the blocks detected in the header content and in the section bodies;
\* the k-th title-block segment holds the lines of the k-th detected block,
\* trimmed and in order; the text segments before it hold exactly the words
\* of the lines and headings before that block, and the text segments after
\* it the words of those after the block.
C28_OneSegmentPerBlock ==
    pc = "prepared" =>
        /\ Cardinality(BlockSegments) = Cardinality(BlockItems)
        /\ \A k \in 1..Cardinality(BlockItems) :
              LET s == KthOf(BlockSegments, k)
                  b == KthOf(BlockItems, k)
                  block_lines == DocumentItems[b][2]
              IN  /\ segments[s].legal_page_title
                  /\ segments[s].lines
                        = [i \in 1..Len(block_lines) |-> Strip(block_lines[i])]
                  /\ WordsOfTextSegments(1, s - 1) = WordsOfLineItems(1, b - 1)
                  /\ WordsOfTextSegments(s + 1, Len(segments))
                        = WordsOfLineItems(b + 1, Len(DocumentItems))

\* a block of two lines in the header content, one of them trimmed, and a
\* block in a section body, each with text segments of ordinary lines of
\* its own part before and after it
C28_Witness ==
    /\ pc = "prepared"
    /\ Cardinality(BlockSegments) = 2
    /\ LET s1 == KthOf(BlockSegments, 1)
           s2 == KthOf(BlockSegments, 2)
       IN  /\ Len(segments[s1].lines) = 2
           /\ segments[s1].lines[1] # PlainLine
           /\ s1 > 1 /\ ~Flagged(s1 - 1) /\ segments[s1 - 1].text # <<>>
           /\ ~Flagged(s1 + 1) /\ segments[s1 + 1].text # <<>>
           /\ \E h \in RunStarts : s1 < h /\ h < s2
           /\ ~Flagged(s2 - 1) /\ segments[s2 - 1].text # <<>>
           /\ s2 < Len(segments) /\ ~Flagged(s2 + 1) /\ segments[s2 + 1].text # <<>>

----------------------------------------------------------------------------
\* the ordinary lines of a part of the input (the lines before the first
\* heading, or the lines between a heading and the next): its lines outside
\* matched title blocks
OrdinaryLines(part) ==
    LET items == detect_legal_title_blocks(part)
    IN  {k \in 1..Len(items) : items[k][1] = "normal_line"}

BlankOrdinaryLines(part) ==
    LET items == detect_legal_title_blocks(part)
    IN  {k \in 1..Len(items) : items[k][1] = "normal_line" /\ Strip(items[k][2]) = <<>>}

\* the parts of the input: <<0, lines before the first heading>> and
\* <<i, lines after the heading at position i>>
SourceParts(lines) ==
    LET H == HeadingPositionsOf(lines)
        first == IF H = {} THEN Len(lines) + 1 ELSE SetMin(H)
    IN  {<<0, SubSeq(lines, 1, first - 1)>>} \cup {<<i, BodyLinesAfter(lines, i)>> : i \in H}

\* the sum of the second components of a set of pairs <<i, n>>
RECURSIVE SumOver(_)
SumOver(pairs) ==
    IF pairs = {} THEN 0
    ELSE LET p == CHOOSE q \in pairs : TRUE
         IN  p[2] + SumOver(pairs \ {p})

\* the text segments that are neither part of a heading nor the blank
\* segment in front of one
BodyTextSegments ==
    {i \in 1..Len(segments) :
        /\ ~segments[i].page_always_new
        /\ ~Flagged(i)
        /\ ~(i < Len(segments) /\ Flagged(i + 1))}

\* C30 Every source line is rendered: for a text whose heading keys are
\* pairwise different, every line before the first heading or in a section
\* body that is outside a matched title block gives at least one text
\* segment, and every blank one of them gives a blank text segment: the text
\* segments outside headings are at least as many as these lines, and the
\* blank ones among them at least as many as the blank lines, with equality
\* at a width that holds every word.
C30_EverySourceLineRendered ==
    (pc = "prepared" /\ DistinctKeys(SplitLines(raw_text))) =>
        LET parts == SourceParts(SplitLines(raw_text))
            blank == {i \in BodyTextSegments : segments[i].text = <<>>}
            blank_lines == SumOver({<<p[1], Cardinality(BlankOrdinaryLines(p[2]))>> :
                                       p \in parts})
        IN  /\ Cardinality(BodyTextSegments)
                  >= SumOver({<<p[1], Cardinality(OrdinaryLines(p[2]))>> : p \in parts})
            /\ Cardinality(blank) >= blank_lines
            /\ max_text_width = WideWidth =>
                  Cardinality(blank) = blank_lines

====
